---- MODULE Spec2Model ----
(***************************************************************************)
(* A model of the combat orchestrator of llm-game (hooks/useCombatSystem,  *)
(* hooks/useInputHandling, services/llmService).                           *)
(*                                                                         *)
(* React state is modelled at the granularity of one event-loop task: a    *)
(* key or click handler, a timer callback, or the continuation of an       *)
(* awaited dialogue request runs to its next suspension point as one       *)
(* action, and the handlers registered for the next task read the state    *)
(* committed by the previous one.  What a continuation captured in its     *)
(* closure (the enemy id, the emotion context) travels with the pending    *)
(* request or timer.                                                       *)
(***************************************************************************)
EXTENDS Integers, Sequences, FiniteSets, Bags, TLC

(* ------------------------------ bounds --------------------------------- *)

\* enableDetection calls, disableDetection calls, smoothing updates and
\* classifications in flight that one run of the emotion pipeline explores.
MaxEnables == 2
MaxDisables == 1
MaxSamples == 1
MaxInFlight == 1
\* Entries of the inventory the player brings to the trader.
MaxInventory == 2
\* Consecutive "no sample" ticks that one fading run explores.
MaxNoSampleTicks == 10
\* Classifications a slow classifier may have in flight together, and the
\* classifications started in one such run.
MaxOverlap == 2
MaxStarted == 2

\* Requests and timers that may be pending together.
MaxPending == 2
\* Attacks the player makes in one run that attack() accepts.
MaxAttacks == 3
\* Accepted attacks in one run that tries every emotion context.
MaxAttacksAny == 1
\* Player levels the attack is tried at.
MaxLevel == 3
\* Saves and loads in one run, and the accepted attacks of a run that also
\* saves, loads, collects or trades.
MaxRestores == 4
MaxAttacksFew == 1
\* The canvas a ProceduralPlacer is constructed for, and the spacing of the
\* grid its random candidates are drawn from.
CanvasWidth == 350
CanvasHeight == 200
GridStep == 50
FineStep == 25
\* The spacing of the grid LayoutManager's random points are drawn from.
ZoneStep == 50

(* ------------------------- program constants --------------------------- *)

EngageThreshold == 40
NearThreshold == 35
PotionHealth == 50
TradeMessageDelay == 15000
MessageDelay == 3000
FleeOffset == 50
EngageDelay == 3000
CounterDelay == 2000
BaseDamage == 20
DamagePerLevel == 5
BaseExperience == 15
GoldSpan == 20
GoldFloor == 10
LevelStep == 100

None == "none"

Max(a, b) == IF a >= b THEN a ELSE b
Min(a, b) == IF a <= b THEN a ELSE b

\* Math.round(n / d) for n >= 0, d > 0: the nearest integer, a tie upwards.
RoundDiv(n, d) == (2 * n + d) \div (2 * d)

\* Math.random() as a fraction <<num, den>> in [0, 1).
RandomSamples == {<<0, 1>>, <<19, 20>>}

\* Math.floor(Math.random() * n)
RandomIndex(r, n) == (r[1] * n) \div r[2]

(* ----------------------------- entities -------------------------------- *)

\* The enemy collection, in array order.  health/defeated change; the
\* other fields are fixed after placement.  Walking (the arrow keys) is
\* not modelled: the player starts where walking has taken them, next to
\* the first enemy, and flight takes them next to the second.
EnemiesData ==
  << [id |-> "orc1", x |-> 60, y |-> 60, health |-> 25, maxHealth |-> 100,
      damage |-> 185, battleCries |-> <<"For the horde!">>,
      defeated |-> FALSE],
     [id |-> "goblin1", x |-> 20, y |-> 20, health |-> 55, maxHealth |-> 55,
      damage |-> 20, battleCries |-> <<"Too slow!", "You fight like a troll!">>,
      defeated |-> FALSE] >>

EnemyIds == {EnemiesData[i].id : i \in DOMAIN EnemiesData}

PlayerData ==
  [x |-> 55, y |-> 60, health |-> 100, maxHealth |-> 100,
   experience |-> 0, level |-> 1, inventory |-> << >>, gold |-> 50]

\* The treasure collection, in array order; the trader stands at
\* (TraderX, TraderY).  Both chests and the trader are within reach of the
\* player's first position.
TreasuresData ==
  << [id |-> "chest1", x |-> 50, y |-> 80, item |-> "Health Potion",
      collected |-> FALSE],
     [id |-> "chest2", x |-> 70, y |-> 50, item |-> "Magic Sword",
      collected |-> FALSE] >>

TraderData == [id |-> "merchant", x |-> 30, y |-> 40, type |-> "trader"]

(* ------------------------- emotion context ----------------------------- *)

\* EmotionContext: isEmotionActive and emotionDescription; a description is
\* the set of words a String.includes test can find in it, {} when absent.
NoEmotion == [isEmotionActive |-> FALSE, emotionDescription |-> {}]

Angry == [isEmotionActive |-> TRUE, emotionDescription |-> {"frustrated", "irritated"}]
Fearful == [isEmotionActive |-> TRUE, emotionDescription |-> {"anxious", "worried"}]

\* The contexts the key handler passes to attack().
AttackContexts == {NoEmotion, Angry, Fearful}

EmotionContexts ==
  { NoEmotion,
    [isEmotionActive |-> TRUE,  emotionDescription |-> {"frustrated", "irritated"}],
    [isEmotionActive |-> TRUE,  emotionDescription |-> {"anxious", "worried"}],
    [isEmotionActive |-> TRUE,  emotionDescription |-> {"cheerful", "pleased"}],
    [isEmotionActive |-> TRUE,  emotionDescription |-> {"melancholy", "downcast"}],
    [isEmotionActive |-> TRUE,  emotionDescription |-> {"calm", "composed"}],
    [isEmotionActive |-> TRUE,  emotionDescription |-> {"displeased", "repulsed"}],
    [isEmotionActive |-> TRUE,  emotionDescription |-> {"angry"}],
    [isEmotionActive |-> TRUE,  emotionDescription |-> {"fearful"}],
    [isEmotionActive |-> TRUE,  emotionDescription |-> {"happy"}],
    [isEmotionActive |-> TRUE,  emotionDescription |-> {"sad"}],
    [isEmotionActive |-> TRUE,  emotionDescription |-> {}],
    [isEmotionActive |-> FALSE, emotionDescription |-> {"frustrated", "irritated"}] }

Includes(description, word) == word \in description

VARIABLES player, enemies, inCombat, enemyTalking, requests, timers,
          gameMessage, lastInput, attacks, reply, saved, restores, treasures,
          service, hook, calls, ticks, streams, intervals, outcome, spent, run,
          observed, placer, layout

\* The emotion pipeline: the service singleton, the hook's state, the
\* enableDetection calls and classifications in flight, the browser's live
\* camera streams and interval timers, and the bookkeeping of the runs.
pipeline == <<service, hook, calls, ticks, streams, intervals, outcome, spent, run,
             observed>>

\* The game: everything but the emotion pipeline.
game == <<player, enemies, inCombat, enemyTalking, requests, timers,
          gameMessage, lastInput, attacks, reply, saved, restores, treasures>>

vars == <<player, enemies, inCombat, enemyTalking, requests, timers,
          gameMessage, lastInput, attacks, reply, saved, restores, treasures,
          service, hook, calls, ticks, streams, intervals, outcome, spent, run,
          observed, placer, layout>>

\* Map generation: the ProceduralPlacer at work and the LayoutManager
\* resolving one placement.
maps == <<placer, layout>>

\* What the combat handlers and their continuations never write.
aside == <<reply, saved, restores, treasures, pipeline, maps>>

(* ------------------------------ helpers -------------------------------- *)

\* utils/gameUtils: distance(...) < threshold, compared on the squares.
isNearEntity(px, py, ex, ey, threshold) ==
  (px - ex) * (px - ex) + (py - ey) * (py - ey) < threshold * threshold

\* Array.prototype.find over the indices that satisfy its predicate: the
\* first of them, 0 if there is none.
Find(hits) ==
  IF hits = {} THEN 0 ELSE CHOOSE i \in hits : \A j \in hits : i <= j

\* enemies.find((e) => e.id === id)
IndexOfId(seq, id) == Find({i \in DOMAIN seq : seq[i].id = id})

Pending == BagCardinality(requests) + Len(timers)

\* The last input handled; a flee right after an engage and a flee right
\* after a flee are told apart.
Input(op) ==
  IF op = "flee" /\ lastInput = "engage" THEN "fleeAfterEngage"
  ELSE IF op = "flee" /\ lastInput \in {"flee", "fleeAfterEngage", "fleeAgain"}
    THEN "fleeAgain"
  ELSE op

Message(kind, enemy) == [kind |-> kind, enemy |-> enemy]

\* attack(): the damage multiplier in percent (useCombatSystem.ts 57-76).
damageMultiplier(ctx) ==
  IF ctx.isEmotionActive /\ ctx.emotionDescription # {}
    THEN IF Includes(ctx.emotionDescription, "angry")
            \/ Includes(ctx.emotionDescription, "frustrated") THEN 120
         ELSE IF Includes(ctx.emotionDescription, "fearful")
            \/ Includes(ctx.emotionDescription, "anxious") THEN 80
         ELSE IF Includes(ctx.emotionDescription, "happy")
            \/ Includes(ctx.emotionDescription, "cheerful") THEN 110
         ELSE IF Includes(ctx.emotionDescription, "sad")
            \/ Includes(ctx.emotionDescription, "melancholy") THEN 90
         ELSE 100
    ELSE 100

\* The damage with Math.floor in the place of Math.round.
AttackDamageFloored(level, ctx) ==
  ((BaseDamage + level * DamagePerLevel) * damageMultiplier(ctx)) \div 100

\* attack(): damage = Math.round(baseDamage * damageMultiplier).
AttackDamage(level, ctx) ==
  RoundDiv((BaseDamage + level * DamagePerLevel) * damageMultiplier(ctx), 100)

\* Bits after the leading one in the mantissa of a double.
MantissaBits == 52

RECURSIVE TwoPowMod(_, _)
TwoPowMod(n, m) == IF n = 0 THEN 1 % m ELSE (2 * TwoPowMod(n - 1, m)) % m

\* The largest e with 2^e <= k, and 2^e, for k >= 1.
RECURSIVE Binade(_)
Binade(k) == IF k < 2 THEN 0 ELSE 1 + Binade(k \div 2)

RECURSIVE TwoPow(_)
TwoPow(e) == IF e = 0 THEN 1 ELSE 2 * TwoPow(e - 1)

\* The binary places of the last mantissa bit of the literal percent/100,
\* for 50 <= percent < 200: one more below 1 than from 1 on.
LiteralBits(percent) ==
  IF percent >= 100 THEN MantissaBits ELSE MantissaBits + 1

\* The double nearest to percent/100, for 50 <= percent < 200, less
\* percent/100, in hundredths of the last mantissa bit.
LiteralError(percent) ==
  LET below == (TwoPowMod(LiteralBits(percent), 100) * percent) % 100
  IN  IF below >= 50 THEN 100 - below ELSE -below

\* Math.round(price * m) in doubles, m being the literal percent/100. The
\* product of price and the double m is rounded to the nearest double, ties
\* to even, and Math.round takes it to floor(x + 0.5): only when
\* price * percent / 100 ends in .5 can the error of the literal decide,
\* and it does when it pulls the product below the last double under
\* k + 0.5 halfway.
MathRoundTimes(price, percent) ==
  LET hundredths == price * percent
      k == hundredths \div 100
      rest == hundredths % 100
  IN  IF rest > 50 THEN k + 1
      ELSE IF rest < 50 THEN k
      ELSE IF price * LiteralError(percent)
                >= -(50 * TwoPow(Binade(k))
                        * TwoPow(LiteralBits(percent) - MantissaBits))
        THEN k + 1
      ELSE k

\* The counter-attack with the enemy's damage as it is, whatever the emotion.
enemyDamageUnmodulated(damage, ctx) == damage

\* The counter-attack: enemyDamage, modulated by the player's emotion.
enemyDamage(damage, ctx) ==
  IF ctx.isEmotionActive /\ ctx.emotionDescription # {}
    THEN IF Includes(ctx.emotionDescription, "fearful")
            \/ Includes(ctx.emotionDescription, "anxious")
           THEN MathRoundTimes(damage, 115)
         ELSE IF Includes(ctx.emotionDescription, "angry")
            \/ Includes(ctx.emotionDescription, "frustrated")
           THEN MathRoundTimes(damage, 95)
         ELSE damage
    ELSE damage

\* goldGained = Math.floor(Math.random() * 20) + 10
goldGained(r) == RandomIndex(r, GoldSpan) + GoldFloor

\* expGained = 15 + updatedEnemy.damage
expGained(enemy) == BaseExperience + enemy.damage

\* The level after a gain, were every crossed threshold to count.
CascadedLevel(level, experience) ==
  CHOOSE l \in level..(level + experience) :
    /\ experience < l * LevelStep
    /\ \A m \in level..(l - 1) : experience >= m * LevelStep

RewardPlayerCascading(prev, exp, gold) ==
  [prev EXCEPT !.experience = prev.experience + exp,
               !.level = CascadedLevel(prev.level, prev.experience + exp),
               !.gold = prev.gold + gold]

\* The victory update of the player (setPlayer((prev) => ...)).
RewardPlayer(prev, exp, gold) ==
  [prev EXCEPT !.experience = prev.experience + exp,
               !.level = IF prev.experience + exp >= prev.level * LevelStep
                           THEN prev.level + 1 ELSE prev.level,
               !.gold = prev.gold + gold]

\* What a continuation keeps of the enemy object in its closure.
Captured(enemy) == [id |-> enemy.id, damage |-> enemy.damage]

Request(kind, enemy, ctx) == [kind |-> kind, enemy |-> enemy, ctx |-> ctx]

Timer(kind, enemy, ctx, delay) ==
  [kind |-> kind, enemy |-> enemy, ctx |-> ctx, delay |-> delay]

(* --------------------------- llmService ---------------------------------- *)

\* JavaScript values, as far as the reply of the endpoint is taken apart.
Undefined == [type |-> "undefined"]
Null == [type |-> "null"]
Str(text) == [type |-> "string", value |-> text]
Obj(fields) == [type |-> "object", fields |-> fields]
Arr(items) == [type |-> "array", items |-> items]
\* A rejected promise or a thrown TypeError, on its way to the catch block.
Thrown == [type |-> "throw"]

\* v[name]: a TypeError on undefined and null, undefined for a missing key.
GetProp(v, name) ==
  IF v.type = "throw" THEN v
  ELSE IF v.type \in {"undefined", "null"} THEN Thrown
  ELSE IF v.type = "object" /\ name \in DOMAIN v.fields THEN v.fields[name]
  ELSE Undefined

\* v[i] for a 0-based index i.
GetIndex(v, i) ==
  IF v.type = "throw" THEN v
  ELSE IF v.type \in {"undefined", "null"} THEN Thrown
  ELSE IF v.type = "array" /\ (i + 1) \in DOMAIN v.items THEN v.items[i + 1]
  ELSE Undefined

\* What the dialogue endpoint may answer.
Responses ==
  {"unreachable", "notJson", "nullBody", "errorBody", "emptyChoices",
   "choiceWithoutMessage", "nullMessage", "messageWithoutContent",
   "nullContent", "content"}

\* The replies that are not {choices: [{message: {content: <string>}}]}.
FailedResponses == Responses \ {"content"}

Situations == {"attack", "defend", "death"}

\* await fetch(...) followed by await res.json(): the parsed body, or the
\* rejection of either promise.
ResponseData(response) ==
  CASE response = "unreachable" -> Thrown
    [] response = "notJson" -> Thrown
    [] response = "nullBody" -> Null
    [] response = "errorBody" -> Obj([error |-> Str("model not loaded")])
    [] response = "emptyChoices" -> Obj([choices |-> Arr(<< >>)])
    [] response = "choiceWithoutMessage" ->
         Obj([choices |-> Arr(<<Obj([index |-> Str("0")])>>)])
    [] response = "nullMessage" ->
         Obj([choices |-> Arr(<<Obj([message |-> Null])>>)])
    [] response = "messageWithoutContent" ->
         Obj([choices |-> Arr(<<Obj([message |->
           Obj([role |-> Str("assistant")])])>>)])
    [] response = "nullContent" ->
         Obj([choices |-> Arr(<<Obj([message |->
           Obj([role |-> Str("assistant"), content |-> Null])])>>)])
    [] response = "content" ->
         Obj([choices |-> Arr(<<Obj([message |->
           Obj([role |-> Str("assistant"), content |-> Str("Grr!")])])>>)])

\* The catch block: a battle cry picked with Math.random().
FallbackLine(enemy, r) ==
  Str(enemy.battleCries[RandomIndex(r, Len(enemy.battleCries)) + 1])

\* LLMService.sendEnemyToLLM: return data.choices[0].message.content, and
\* in the catch block the fallback line.  The situation and the emotion
\* context go into the prompt only.
sendEnemyToLLM(enemy, situation, emotionContext, response, r) ==
  LET data == ResponseData(response)
      content == GetProp(GetProp(GetIndex(GetProp(data, "choices"), 0),
                                 "message"), "content")
  IN  IF content.type = "throw" THEN FallbackLine(enemy, r) ELSE content

NoReply ==
  [enemy |-> None, situation |-> None, emotionContext |-> NoEmotion,
   response |-> None, line |-> Undefined]

(* ---------------------- emotionDetectionService: samples ----------------- *)

\* Scores and confidences are fractions <<num, den>> in lowest terms, so
\* that the products with 0.8, 0.3, 0.7, 0.4 and 0.6 are exact.
RECURSIVE GCD(_, _)
GCD(a, b) == IF b = 0 THEN a ELSE GCD(b, a % b)

Frac(n, d) == LET g == GCD(n, d) IN IF n = 0 THEN <<0, 1>> ELSE <<n \div g, d \div g>>

FracMul(a, b) == Frac(a[1] * b[1], a[2] * b[2])
FracAdd(a, b) == Frac(a[1] * b[2] + b[1] * a[2], a[2] * b[2])
FracLess(a, b) == a[1] * b[2] < b[1] * a[2]
\* |a - b| < c
FracNear(a, b, c) ==
  LET n == a[1] * b[2] - b[1] * a[2]
  IN  (IF n < 0 THEN -n ELSE n) * c[2] < c[1] * a[2] * b[2]

Zero == <<0, 1>>

\* The keys of allEmotions, in the order the object literal lists them.
EmotionKeys == <<"happy", "sad", "angry", "fearful", "disgusted", "surprised", "neutral">>
EmotionLabels == {EmotionKeys[i] : i \in DOMAIN EmotionKeys}

FadeFactor == <<4, 5>>
ClearThreshold == <<1, 5>>
MinConfidence == <<3, 10>>
CloseMargin == <<1, 10>>
STRONG_EMOTION_THRESHOLD == <<3, 5>>
SMOOTH_FACTOR == <<2, 5>>
StrongPriorWeight == <<3, 10>>
StrongNewWeight == <<7, 10>>
NeutralFloor == <<7, 20>>
NeutralDefault == <<1, 2>>
MinorChange == <<1, 10>>

\* Scores, given for the keys that are not 0.
Scores(given) ==
  [e \in EmotionLabels |-> IF e \in DOMAIN given THEN given[e] ELSE Zero]

\* EmotionData; null is NullEmotion (timestamps are left out).
EmotionData(primary, confidence, allEmotions) ==
  [primary |-> primary, confidence |-> confidence, allEmotions |-> allEmotions]

NullEmotion == EmotionData("null", Zero, Scores(<< >>))

\* The first key, in the order of keys, whose score no other exceeds: the
\* head of the stable descending sort, and the result of the reduce that
\* replaces its maximum on a strictly greater score only.
TopKey(scores, keys) ==
  LET best == Find({i \in DOMAIN keys :
                      \A j \in DOMAIN keys : ~FracLess(scores[keys[i]], scores[keys[j]])})
  IN  keys[best]

\* processExpressions, were it to report the top label whatever the margin.
processExpressionsTopLabel(expressions) ==
  EmotionData(TopKey(expressions, EmotionKeys),
              expressions[TopKey(expressions, EmotionKeys)], expressions)

\* processExpressions(expressions)
processExpressions(expressions) ==
  LET primary == TopKey(expressions, EmotionKeys)
      rest == SelectSeq(EmotionKeys, LAMBDA e : e # primary)
      secondary == TopKey(expressions, rest)
      p == expressions[primary]
      q == expressions[secondary]
  IN  IF FracLess(FracAdd(p, <<-q[1], q[2]>>), CloseMargin)
         /\ FracLess(p, STRONG_EMOTION_THRESHOLD)
        THEN EmotionData("neutral", expressions["neutral"], expressions)
        ELSE EmotionData(primary, p, expressions)

\* The reduce of applyEnhancedSmoothing: it starts from {neutral, 0}.
ReducePrimary(scores) ==
  IF \A e \in EmotionLabels : scores[e] = Zero
    THEN [emotion |-> "neutral", score |-> Zero]
    ELSE [emotion |-> TopKey(scores, EmotionKeys),
          score |-> scores[TopKey(scores, EmotionKeys)]]

Blend(previous, newEmotion, priorWeight, newWeight) ==
  [e \in EmotionLabels |->
     FracAdd(FracMul(previous.allEmotions[e], priorWeight),
             FracMul(newEmotion.allEmotions[e], newWeight))]

\* applyEnhancedSmoothing, were it to keep the top label however low its
\* blended score.
applyEnhancedSmoothingUnfloored(previous, newEmotion) ==
  IF previous = NullEmotion
    THEN [newEmotion EXCEPT !.confidence = FracMul(@, FadeFactor)]
  ELSE LET smoothed == IF FracLess(STRONG_EMOTION_THRESHOLD, newEmotion.confidence)
                         THEN Blend(previous, newEmotion, StrongPriorWeight, StrongNewWeight)
                         ELSE Blend(previous, newEmotion,
                                    FracAdd(<<1, 1>>, <<-SMOOTH_FACTOR[1], SMOOTH_FACTOR[2]>>),
                                    SMOOTH_FACTOR)
       IN  EmotionData(ReducePrimary(smoothed).emotion, ReducePrimary(smoothed).score,
                       smoothed)

\* applyEnhancedSmoothing(newEmotion), previous being emotionHistory.smoothed
applyEnhancedSmoothing(previous, newEmotion) ==
  IF previous = NullEmotion
    THEN [newEmotion EXCEPT !.confidence = FracMul(@, FadeFactor)]
  ELSE IF FracLess(STRONG_EMOTION_THRESHOLD, newEmotion.confidence)
    THEN LET smoothed == Blend(previous, newEmotion, StrongPriorWeight, StrongNewWeight)
             top == ReducePrimary(smoothed)
         IN  EmotionData(top.emotion, top.score, smoothed)
  ELSE LET smoothed == Blend(previous, newEmotion,
                             FracAdd(<<1, 1>>, <<-SMOOTH_FACTOR[1], SMOOTH_FACTOR[2]>>),
                             SMOOTH_FACTOR)
           top == ReducePrimary(smoothed)
       IN  IF FracLess(top.score, NeutralFloor)
             THEN EmotionData("neutral",
                              IF smoothed["neutral"] = Zero THEN NeutralDefault
                                                            ELSE smoothed["neutral"],
                              smoothed)
             ELSE EmotionData(top.emotion, top.score, smoothed)

\* The smoothed sample after a "no sample" tick that keeps its confidence.
fadedKeeping(smoothed) ==
  IF smoothed = NullEmotion THEN NullEmotion
  ELSE smoothed

\* The smoothed sample after a "no sample" tick.
faded(smoothed) ==
  IF smoothed = NullEmotion THEN NullEmotion
  ELSE IF FracLess(FracMul(smoothed.confidence, FadeFactor), ClearThreshold)
    THEN NullEmotion
  ELSE [smoothed EXCEPT !.confidence = FracMul(@, FadeFactor)]

\* updateEmotionHistory(newEmotion) on the history, without the callback.
updateEmotionHistory(history, newEmotion) ==
  [previous |-> history.current,
   current |-> newEmotion,
   smoothed |-> IF newEmotion # NullEmotion
                  THEN applyEnhancedSmoothing(history.smoothed, newEmotion)
                  ELSE faded(history.smoothed)]

\* resetEmotionHistory()
EmptyHistory ==
  [current |-> NullEmotion, previous |-> NullEmotion, smoothed |-> NullEmotion]

(* ------------------ emotionDetectionService: state ---------------------- *)

\* Streams, video elements and interval timers are numbered by the
\* enableDetection call that created them; 0 is null.
NoId == 0

MAX_STABILITY_CHECKS == 5
\* DETECTION_THROTTLE, in periods of the 200 ms detection interval.
ThrottlePeriods == 4

\* The fields of the EmotionDetectionService singleton. sinceDetection is
\* Date.now() - lastDetectionTime in interval periods, capped at the throttle.
ServiceData ==
  [modelsLoaded |-> FALSE, stream |-> NoId, videoElement |-> NoId,
   isDetecting |-> FALSE, detectionInterval |-> NoId,
   onEmotionCallback |-> None, emotionHistory |-> EmptyHistory,
   sinceDetection |-> ThrottlePeriods, videoStabilityChecks |-> 0]

\* The initial EmotionDetectionState of useEmotionDetection; mounted is
\* whether the component using the hook is still mounted.
HookState ==
  [isEnabled |-> FALSE, isLoading |-> FALSE, isActive |-> FALSE,
   currentEmotion |-> NullEmotion, error |-> None, hasCamera |-> TRUE,
   hasPermission |-> "null", mounted |-> TRUE]

\* What a tick was given and whom it told: the detection its classification
\* settled with and the values it passed to the registered callback.  NotReady
\* is the tick that found the video not ready and classified nothing.
NotReady == [kind |-> "notReady", expressions |-> Scores(<< >>)]

Unobserved == [detection |-> NotReady, notified |-> << >>]

InitPipeline ==
  /\ service = ServiceData
  /\ hook = HookState
  /\ calls = << >>
  /\ ticks = << >>
  /\ streams = {}
  /\ intervals = {}
  /\ outcome = [call |-> NoId, result |-> None]
  /\ spent = [enables |-> 0, disables |-> 0, samples |-> 0, checks |-> 0]
  /\ run = [from |-> NullEmotion, ticks |-> 0]
  /\ observed = Unobserved

(* --------------------------- useSaveSystem ------------------------------ *)

\* The save slots in use, of MAX_SAVE_SLOTS: quick save and load use slot_1.
SaveSlots == {"slot_1", "slot_2"}

\* localStorage.getItem(...) of a slot never saved to.
NoSave ==
  [version |-> None, player |-> PlayerData, enemies |-> << >>,
   treasures |-> << >>]

\* GameSaveData, as far as loadGame restores it into the combat state.
SaveData(p, es, ts) ==
  [version |-> "1.0.0", player |-> p, enemies |-> es, treasures |-> ts]

(* ------------------------- map generation: state ------------------------ *)

\* placeEntities: const result = { npcs: [], enemies: [], treasures: [] }
PlacementResult == [npcs |-> << >>, enemies |-> << >>, treasures |-> << >>]

\* useMapGeneration.generateProceduralMap: the rules handed to
\* placeEntities. density is in tenths; a minDistance or a density of 0
\* is one the rule does not give (both are falsy where the code reads them).
Rules ==
  <<[entityType |-> "npc", minDistance |-> 150, avoidTypes |-> {"enemy"},
     density |-> 3],
    [entityType |-> "enemy", minDistance |-> 60, avoidTypes |-> {"npc"},
     density |-> 8],
    [entityType |-> "treasure", minDistance |-> 80, avoidTypes |-> {},
     density |-> 6]>>

\* Rule sets placeEntities can be handed beside the one of
\* generateProceduralMap, each with one NPC and one enemy to place on the
\* canvas of the bounds: the same distances with a density of 0.2, and an
\* enemy rule whose minDistance is below the general minimum separation.
SparseRules ==
  <<[entityType |-> "npc", minDistance |-> 150, avoidTypes |-> {"enemy"},
     density |-> 2],
    [entityType |-> "enemy", minDistance |-> 60, avoidTypes |-> {"npc"},
     density |-> 2]>>

CloseRules ==
  <<[entityType |-> "npc", minDistance |-> 150, avoidTypes |-> {"enemy"},
     density |-> 2],
    [entityType |-> "enemy", minDistance |-> 20, avoidTypes |-> {"npc"},
     density |-> 2]>>

RuleSets == {SparseRules, CloseRules}

\* A ProceduralPlacer as constructed: nothing placed, placeEntities not yet
\* called (rule 0). While placeEntities runs, rule is the index of the rule
\* generatePositions works on, positions and attempts are that call's locals,
\* rules the rule set placeEntities was handed.
PlacerData ==
  [placedPositions |-> << >>, result |-> PlacementResult, rule |-> 0,
   positions |-> << >>, attempts |-> 0, rules |-> Rules]

\* LayoutManager.resolvePosition not called: no placement handed in, no
\* position returned; i is the loop counter of getRandomPositionInZone.
LayoutData ==
  [called |-> FALSE,
   placement |-> [position |-> [kind |-> "absent", name |-> None,
                                x |-> 0, y |-> 0],
                  zone |-> None],
   i |-> 0, returned |-> << >>]

InitMaps ==
  /\ placer = PlacerData
  /\ layout = LayoutData

(* ------------------------------- Init ---------------------------------- *)

Init ==
  /\ player = PlayerData
  /\ enemies = EnemiesData
  /\ inCombat = None
  /\ enemyTalking = FALSE
  /\ requests = EmptyBag
  /\ timers = << >>
  /\ gameMessage = Message("", None)
  /\ lastInput = "none"
  /\ attacks = 0
  /\ reply = NoReply
  /\ saved = [slot \in SaveSlots |-> NoSave]
  /\ restores = 0
  /\ treasures = TreasuresData
  /\ InitPipeline
  /\ InitMaps

(* ------------------------ useCombatSystem ------------------------------ *)

\* startCombat, were a new session to restore the enemy to full health.
startCombatRestoring(enemy) ==
  /\ inCombat' = enemy.id
  /\ enemyTalking' = TRUE
  /\ requests' = requests (+)
       SetToBag({Request("engage", Captured(enemy), NoEmotion)})
  /\ enemies' = [i \in DOMAIN enemies |->
                   IF enemies[i].id = enemy.id
                     THEN [enemies[i] EXCEPT !.health = enemies[i].maxHealth]
                     ELSE enemies[i]]
  /\ UNCHANGED <<player, timers, gameMessage>>

\* startCombat(enemy): up to the await of the opening line.
startCombat(enemy) ==
  /\ inCombat' = enemy.id
  /\ enemyTalking' = TRUE
  /\ requests' = requests (+)
       SetToBag({Request("engage", Captured(enemy), NoEmotion)})
  /\ UNCHANGED <<player, enemies, timers, gameMessage>>

\* attack(): if (updatedEnemy && updatedEnemy.health <= 0)
IsLethalStrict(health) == health < 0

IsLethal(health) == health <= 0

\* attack(ctx) past its guard: the damage, then up to the await of the
\* death or defend line.
attackAccepted(ctx) ==
  LET damage == AttackDamage(player.level, ctx)
      newEnemies == [i \in DOMAIN enemies |->
                       IF enemies[i].id = inCombat
                         THEN [enemies[i] EXCEPT !.health = @ - damage]
                         ELSE enemies[i]]
      k == IndexOfId(newEnemies, inCombat)
  IN  /\ enemies' = newEnemies
      /\ IF k # 0 /\ IsLethal(newEnemies[k].health)
           THEN /\ enemyTalking' = TRUE
                /\ requests' = requests (+)
                     SetToBag({Request("death", Captured(newEnemies[k]), ctx)})
           ELSE IF k # 0
           THEN /\ enemyTalking' = TRUE
                /\ requests' = requests (+)
                     SetToBag({Request("defend", Captured(newEnemies[k]), ctx)})
           ELSE UNCHANGED <<enemyTalking, requests>>
      /\ UNCHANGED <<player, inCombat, timers, gameMessage>>

attackIgnored ==
  UNCHANGED <<player, enemies, inCombat, enemyTalking, requests, timers,
              gameMessage>>

\* attack() without the talking flag in its guard.
attackDespiteTalking(ctx) ==
  IF inCombat = None THEN attackIgnored ELSE attackAccepted(ctx)

\* attack(ctx): if (!inCombat || enemyTalking) return;
attack(ctx) ==
  IF inCombat = None \/ enemyTalking THEN attackIgnored ELSE attackAccepted(ctx)

\* flee() without the floor at 0.
fleeUnclamped ==
  /\ inCombat' = None
  /\ enemyTalking' = FALSE
  /\ gameMessage' = Message("fled", None)
  /\ player' = [player EXCEPT !.x = player.x - FleeOffset,
                              !.y = player.y - FleeOffset]
  /\ UNCHANGED <<enemies, requests, timers>>

\* flee() without setEnemyTalking(false).
fleeStillTalking ==
  /\ inCombat' = None
  /\ gameMessage' = Message("fled", None)
  /\ player' = [player EXCEPT !.x = Max(0, player.x - FleeOffset),
                              !.y = Max(0, player.y - FleeOffset)]
  /\ UNCHANGED <<enemies, enemyTalking, requests, timers>>

\* flee()
flee ==
  /\ inCombat' = None
  /\ enemyTalking' = FALSE
  /\ gameMessage' = Message("fled", None)
  /\ player' = [player EXCEPT !.x = Max(0, player.x - FleeOffset),
                              !.y = Max(0, player.y - FleeOffset)]
  /\ UNCHANGED <<enemies, requests, timers>>

\* startCombat after its await: the opening line is shown and the 3 s
\* timer is set.
EngageLineArrives(req) ==
  /\ gameMessage' = Message("battleCry", req.enemy.id)
  /\ timers' = Append(timers, Timer("engage", req.enemy, req.ctx, EngageDelay))
  /\ UNCHANGED <<player, enemies, inCombat, enemyTalking>>

\* attack after the await of the death line: rewards, defeat, session end.
DeathLineArrives(req, r) ==
  /\ player' = RewardPlayer(player, expGained(req.enemy), goldGained(r))
  /\ enemies' = [i \in DOMAIN enemies |->
                   IF enemies[i].id = req.enemy.id
                     THEN [enemies[i] EXCEPT !.defeated = TRUE]
                     ELSE enemies[i]]
  /\ gameMessage' = Message("defeated", req.enemy.id)
  /\ inCombat' = None
  /\ enemyTalking' = FALSE
  /\ UNCHANGED timers

\* attack after the await of the defend line: the 2 s counter-attack timer.
DefendLineArrives(req) ==
  /\ timers' = Append(timers, Timer("counter", req.enemy, req.ctx, CounterDelay))
  /\ UNCHANGED <<player, enemies, inCombat, enemyTalking, gameMessage>>

\* The counter-attack callback, were its damage applied only once its
\* attack line has arrived.
CounterLineArrivesWithDamage(req) ==
  /\ player' = [player EXCEPT
                  !.health = Max(0, player.health
                                      - enemyDamage(req.enemy.damage, req.ctx))]
  /\ gameMessage' = Message("exchange", req.enemy.id)
  /\ enemyTalking' = FALSE
  /\ UNCHANGED <<enemies, inCombat, timers>>

\* The counter-attack callback after the await of its attack line.
CounterLineArrives(req) ==
  /\ gameMessage' = Message("exchange", req.enemy.id)
  /\ enemyTalking' = FALSE
  /\ UNCHANGED <<player, enemies, inCombat, timers>>

\* useTradingSystem.sendToLLM after its await: the reply is shown for 15 s,
\* or LLMService.sendToLLM has thrown and the fallback is shown for 3 s.
NpcReplyArrives(req) ==
  \E answered \in BOOLEAN :
    /\ gameMessage' = Message(IF answered THEN "npcReply" ELSE "distracted", None)
    /\ timers' = Append(timers, Timer("message", req.enemy, req.ctx,
                                      IF answered THEN TradeMessageDelay
                                                  ELSE MessageDelay))
    /\ UNCHANGED <<player, enemies, inCombat, enemyTalking>>

\* A pending dialogue request completes (with a reply or the fallback line:
\* sendEnemyToLLM resolves either way) and its caller resumes.
RequestCompletes ==
  \E req \in BagToSet(requests) : \E r \in RandomSamples :
    /\ requests' = requests (-) SetToBag({req})
    /\ UNCHANGED <<lastInput, attacks, aside>>
    /\ CASE req.kind = "engage"  -> EngageLineArrives(req)
         [] req.kind = "death"   -> DeathLineArrives(req, r)
         [] req.kind = "defend"  -> DefendLineArrives(req)
         [] req.kind = "counter" -> CounterLineArrives(req)
         [] req.kind = "npc"     -> NpcReplyArrives(req)

\* setTimeout callbacks run in the order of their expiry: a timer set
\* earlier with a delay no longer than timer i's expires before it.
MayExpire(i) == \A j \in 1..(i - 1) : timers[j].delay > timers[i].delay

RemoveAt(seq, i) == SubSeq(seq, 1, i - 1) \o SubSeq(seq, i + 1, Len(seq))

\* The 3 s timer of startCombat.
EngageTimerFires(t) ==
  /\ enemyTalking' = FALSE
  /\ UNCHANGED <<player, enemies, inCombat, requests, gameMessage>>

\* The 2 s timer of attack: the counter-attack, up to the await of its line.
CounterTimerFires(t) ==
  /\ player' = [player EXCEPT
                  !.health = Max(0, player.health - enemyDamage(t.enemy.damage, t.ctx))]
  /\ requests' = requests (+) SetToBag({Request("counter", t.enemy, t.ctx)})
  /\ UNCHANGED <<enemies, inCombat, enemyTalking, gameMessage>>

\* The 3 s timer of saveGame and loadGame.
MessageTimerFires(t) ==
  /\ gameMessage' = Message("", None)
  /\ UNCHANGED <<player, enemies, inCombat, enemyTalking, requests>>

TimerFires ==
  \E i \in DOMAIN timers :
    /\ MayExpire(i)
    /\ timers' = RemoveAt(timers, i)
    /\ UNCHANGED <<lastInput, attacks, aside>>
    /\ CASE timers[i].kind = "engage"  -> EngageTimerFires(timers[i])
         [] timers[i].kind = "counter" -> CounterTimerFires(timers[i])
         [] timers[i].kind = "message" -> MessageTimerFires(timers[i])

(* ------------------------ useInputHandling ----------------------------- *)

\* The find without its !enemy.defeated test.
nearbyEnemyDefeatedToo ==
  Find({i \in DOMAIN enemies :
    isNearEntity(player.x, player.y, enemies[i].x, enemies[i].y, EngageThreshold)})

\* handleKeyDown, key "f": combat initiation.
nearbyEnemy ==
  Find({i \in DOMAIN enemies :
    /\ ~enemies[i].defeated
    /\ isNearEntity(player.x, player.y, enemies[i].x, enemies[i].y, EngageThreshold)})

KeyEngage ==
  IF nearbyEnemy # 0 /\ inCombat = None
    THEN /\ Pending < MaxPending
         /\ startCombat(enemies[nearbyEnemy])
         /\ lastInput' = Input("engage")
         /\ UNCHANGED <<attacks, aside>>
    ELSE /\ lastInput' = Input("engageRefused")
         /\ UNCHANGED <<player, enemies, inCombat, enemyTalking, requests,
                        timers, gameMessage, attacks, aside>>

\* handleKeyDown, key "1", and the Attack button: both end in attack(),
\* which checks the session and the talking flag itself.
KeyAttackWith(ctx, budget) ==
    /\ (inCombat # None /\ ~enemyTalking) =>
         Pending < MaxPending /\ attacks < budget
    /\ attack(ctx)
    /\ lastInput' = Input(IF inCombat = None \/ enemyTalking
                            THEN "attackIgnored" ELSE "attack")
    /\ attacks' = IF inCombat = None \/ enemyTalking
                    THEN attacks ELSE attacks + 1
    /\ UNCHANGED aside

KeyAttack == \E ctx \in AttackContexts : KeyAttackWith(ctx, MaxAttacks)

\* handleKeyDown, key "2", and the Flee button.
KeyFlee ==
  /\ flee
  /\ lastInput' = Input("flee")
  /\ UNCHANGED <<attacks, aside>>

Next ==
  \/ KeyEngage
  \/ KeyAttack
  \/ KeyFlee
  \/ RequestCompletes
  \/ TimerFires

Spec == Init /\ [][Next]_vars

\* endCombat(), which the hook hands out beside flee.
endCombat ==
  /\ inCombat' = None
  /\ enemyTalking' = FALSE
  /\ UNCHANGED <<player, enemies, requests, timers, gameMessage>>

EndCombatCall ==
  /\ endCombat
  /\ lastInput' = Input("endCombat")
  /\ UNCHANGED <<attacks, aside>>

NextCombat ==
  \/ Next
  \/ EndCombatCall

SpecCombat == Init /\ [][NextCombat]_vars

(* The attack under every emotion context and at several player levels. *)

KeyAttackAny == \E ctx \in EmotionContexts : KeyAttackWith(ctx, MaxAttacksAny)

\* A player restored at the start of level l.
PlayerAtLevel(l) ==
  [PlayerData EXCEPT !.level = l, !.experience = (l - 1) * LevelStep]

InitEmotions ==
  /\ player \in {PlayerAtLevel(l) : l \in 1..MaxLevel}
  /\ enemies = EnemiesData
  /\ inCombat = None
  /\ enemyTalking = FALSE
  /\ requests = EmptyBag
  /\ timers = << >>
  /\ gameMessage = Message("", None)
  /\ lastInput = "none"
  /\ attacks = 0
  /\ reply = NoReply
  /\ saved = [slot \in SaveSlots |-> NoSave]
  /\ restores = 0
  /\ treasures = TreasuresData
  /\ InitPipeline
  /\ InitMaps

NextEmotions ==
  \/ KeyEngage
  \/ KeyAttackAny
  \/ KeyFlee
  \/ RequestCompletes
  \/ TimerFires

SpecEmotions == InitEmotions /\ [][NextEmotions]_vars

(* Combat with the save menu: saveGame and loadGame of a slot (F5 and F9  *)
(* are those of slot_1), which the key handler serves before the combat  *)
(* keys.                                                                 *)

\* setTimeout(() => setGameMessage(""), 3000)
MessageTimer(delay) ==
  Timer("message", Captured(EnemiesData[1]), NoEmotion, delay)

\* saveGame(slotId)
saveGame(slot) ==
  /\ saved' = [saved EXCEPT ![slot] = SaveData(player, enemies, treasures)]
  /\ gameMessage' = Message("saved", None)
  /\ timers' = Append(timers, MessageTimer(MessageDelay))
  /\ UNCHANGED <<player, enemies, inCombat, enemyTalking, requests, treasures>>

\* loadGame(slotId)
loadGame(slot) ==
  IF saved[slot] = NoSave
    THEN /\ gameMessage' = Message("noSave", None)
         /\ timers' = Append(timers, MessageTimer(MessageDelay))
         /\ UNCHANGED <<player, enemies, inCombat, enemyTalking, requests,
                        saved, treasures>>
    ELSE /\ player' = saved[slot].player
         /\ enemies' = saved[slot].enemies
         /\ treasures' = saved[slot].treasures
         /\ gameMessage' = Message("loaded", None)
         /\ timers' = Append(timers, MessageTimer(MessageDelay))
         /\ UNCHANGED <<inCombat, enemyTalking, requests, saved>>

SaveKey ==
  \E slot \in SaveSlots :
    /\ restores < MaxRestores /\ Pending < MaxPending
    /\ saveGame(slot)
    /\ lastInput' = Input("save")
    /\ restores' = restores + 1
    /\ UNCHANGED <<attacks, reply, pipeline, maps>>

LoadKey ==
  \E slot \in SaveSlots :
    /\ restores < MaxRestores /\ Pending < MaxPending
    /\ loadGame(slot)
    /\ lastInput' = Input("load")
    /\ restores' = restores + 1
    /\ UNCHANGED <<attacks, reply, pipeline, maps>>

KeyAttackPlain == KeyAttackWith(NoEmotion, MaxAttacksFew)

NextRestore ==
  \/ KeyEngage
  \/ KeyAttackPlain
  \/ KeyFlee
  \/ RequestCompletes
  \/ TimerFires
  \/ SaveKey
  \/ LoadKey

SpecRestore == Init /\ [][NextRestore]_vars

(* Combat with treasure collection and trading. *)

Sad == [isEmotionActive |-> TRUE, emotionDescription |-> {"melancholy", "downcast"}]

\* data/itemPrices
itemPrices ==
  [item \in {"Magic Sword", "Ancient Rune", "Silver Ring", "Health Potion"} |->
     CASE item = "Magic Sword" -> 100
       [] item = "Ancient Rune" -> 75
       [] item = "Silver Ring" -> 50
       [] item = "Health Potion" -> 25]

\* collectTreasure without the cap at maxHealth.
collectTreasureUncapped(k) ==
  /\ treasures' = [treasures EXCEPT ![k].collected = TRUE]
  /\ player' =
       [player EXCEPT
          !.inventory = Append(@, treasures[k].item),
          !.health = IF treasures[k].item = "Health Potion"
                       THEN player.health + PotionHealth ELSE @]
  /\ gameMessage' = Message("found", None)
  /\ UNCHANGED <<enemies, inCombat, enemyTalking, requests, timers>>

\* collectTreasure(treasure), for the treasure at index k.
collectTreasure(k) ==
  /\ treasures' = [treasures EXCEPT ![k].collected = TRUE]
  /\ player' =
       [player EXCEPT
          !.inventory = Append(@, treasures[k].item),
          !.health = IF treasures[k].item = "Health Potion"
                       THEN Min(player.maxHealth, player.health + PotionHealth)
                       ELSE @]
  /\ gameMessage' = Message("found", None)
  /\ UNCHANGED <<enemies, inCombat, enemyTalking, requests, timers>>

\* handleKeyDown, key "e"
nearbyTreasure ==
  Find({k \in DOMAIN treasures :
    /\ ~treasures[k].collected
    /\ isNearEntity(player.x, player.y, treasures[k].x, treasures[k].y,
                    NearThreshold)})

CollectKey ==
  /\ nearbyTreasure # 0
  /\ collectTreasure(nearbyTreasure)
  /\ lastInput' = Input("collect")
  /\ UNCHANGED <<attacks, reply, saved, restores, pipeline, maps>>

\* The items the sell pattern names, which are the items with a price.
Catalog == DOMAIN itemPrices

\* What the player says to the trader: a verb, followed by the name of a
\* catalog item or by none ("greet" stands for a text without sell, trade
\* or buy).
Utterances ==
  {[verb |-> verb, named |-> named] :
     verb \in {"sell", "trade", "buy", "greet"}, named \in Catalog \cup {None}}

\* userInput.toLowerCase().match(/sell|trade|buy.*?(<item>)/i): the
\* alternatives are "sell", "trade" and "buy.*?(<item>)", so the group
\* captures an item after "buy" only.
sellMatch(said) ==
  [matched |-> \/ said.verb \in {"sell", "trade"}
               \/ said.verb = "buy" /\ said.named # None,
   item |-> IF said.verb = "buy" THEN said.named ELSE None]

\* player.inventory.find((item) => item.includes(sellMatch[1] || ""))
itemToSell(inventory, said) ==
  Find({i \in DOMAIN inventory :
          sellMatch(said).item = None \/ inventory[i] = sellMatch(said).item})

\* The price the trader pays, in percent of the listed price.
priceMultiplier(ctx) ==
  IF ctx.isEmotionActive /\ ctx.emotionDescription # {}
    THEN IF Includes(ctx.emotionDescription, "sad")
            \/ Includes(ctx.emotionDescription, "melancholy") THEN 110
         ELSE IF Includes(ctx.emotionDescription, "frustrated")
            \/ Includes(ctx.emotionDescription, "angry") THEN 115
         ELSE IF Includes(ctx.emotionDescription, "happy")
            \/ Includes(ctx.emotionDescription, "cheerful") THEN 100
         ELSE IF Includes(ctx.emotionDescription, "fearful")
            \/ Includes(ctx.emotionDescription, "anxious") THEN 105
         ELSE 100
    ELSE 100

finalPrice(item, ctx) ==
  IF priceMultiplier(ctx) = 100 THEN itemPrices[item]
  ELSE MathRoundTimes(itemPrices[item], priceMultiplier(ctx))

\* useTradingSystem.sendToLLM(userInput, npcName, "trader", ctx), up to its
\* return or its await.
sendToLLM(said, ctx) ==
  LET i == IF sellMatch(said).matched THEN itemToSell(player.inventory, said) ELSE 0
  IN  IF i # 0 /\ player.inventory[i] \in DOMAIN itemPrices
        THEN /\ player' =
                  [player EXCEPT
                     !.inventory = SelectSeq(@, LAMBDA item : item # player.inventory[i]),
                     !.gold = @ + finalPrice(player.inventory[i], ctx)]
             /\ gameMessage' = Message("sold", None)
             /\ timers' = Append(timers, MessageTimer(TradeMessageDelay))
             /\ UNCHANGED <<enemies, inCombat, enemyTalking, requests>>
      ELSE IF sellMatch(said).matched /\ sellMatch(said).item # None
        THEN /\ gameMessage' = Message("notOwned", None)
             /\ timers' = Append(timers, MessageTimer(TradeMessageDelay))
             /\ UNCHANGED <<player, enemies, inCombat, enemyTalking, requests>>
      ELSE /\ requests' = requests (+)
                SetToBag({Request("npc", Captured(EnemiesData[1]), ctx)})
           /\ UNCHANGED <<player, enemies, inCombat, enemyTalking, timers,
                          gameMessage>>

\* handleKeyDown, key " ": the player talks to the trader they stand by.
TalkKey ==
  \E said \in Utterances : \E ctx \in {NoEmotion, Sad} :
    /\ isNearEntity(player.x, player.y, TraderData.x, TraderData.y, NearThreshold)
    /\ Pending < MaxPending
    /\ sendToLLM(said, ctx)
    /\ lastInput' = Input("talk")
    /\ UNCHANGED <<attacks, reply, saved, restores, treasures, pipeline, maps>>

\* The contexts the trader's prices tell apart: getEmotionDescription() for
\* sad, angry, happy, fearful and neutral, and no active emotion.
TradeContexts ==
  {ctx \in EmotionContexts :
     \/ ctx = NoEmotion
     \/ ctx.isEmotionActive
        /\ ctx.emotionDescription \in
             {{"melancholy", "downcast"}, {"frustrated", "irritated"},
              {"cheerful", "pleased"}, {"anxious", "worried"}, {"calm", "composed"}}}

\* The player talks to the trader under any of these contexts.
TalkKeyAny ==
  \E said \in Utterances : \E ctx \in TradeContexts :
    /\ isNearEntity(player.x, player.y, TraderData.x, TraderData.y, NearThreshold)
    /\ Pending < MaxPending
    /\ sendToLLM(said, ctx)
    /\ lastInput' = Input("talk")
    /\ UNCHANGED <<attacks, reply, saved, restores, treasures, pipeline, maps>>

\* The inventories the player can hold: the chests give catalog items, and
\* a regenerated map gives the same items again.
Inventories ==
  UNION {[1..n -> Catalog] : n \in 0..MaxInventory}

\* The player stands by the trader, where fleeing from the spawn point
\* leads, with some inventory.
InitTrade ==
  /\ \E inventory \in Inventories :
       player = [PlayerData EXCEPT !.x = Max(0, PlayerData.x - FleeOffset),
                                   !.inventory = inventory]
  /\ enemies = EnemiesData
  /\ inCombat = None
  /\ enemyTalking = FALSE
  /\ requests = EmptyBag
  /\ timers = << >>
  /\ gameMessage = Message("", None)
  /\ lastInput = "none"
  /\ attacks = 0
  /\ reply = NoReply
  /\ saved = [slot \in SaveSlots |-> NoSave]
  /\ restores = 0
  /\ treasures = TreasuresData
  /\ InitPipeline
  /\ InitMaps

NextTrade ==
  \/ TalkKeyAny
  \/ RequestCompletes
  \/ TimerFires

SpecTrade == InitTrade /\ [][NextTrade]_vars

KeyAttackFearful == KeyAttackWith(Fearful, MaxAttacksFew)

NextWorld ==
  \/ KeyEngage
  \/ KeyAttackFearful
  \/ KeyFlee
  \/ RequestCompletes
  \/ TimerFires
  \/ CollectKey
  \/ TalkKey

SpecWorld == Init /\ [][NextWorld]_vars

(* The dialogue gateway on its own: one call per step, over every enemy, *)
(* situation, emotion context and reply of the endpoint.                  *)

EnemyLineRequested ==
  \E i \in DOMAIN enemies : \E situation \in Situations :
  \E ctx \in EmotionContexts : \E response \in Responses :
  \E r \in RandomSamples :
    /\ reply' = [enemy |-> enemies[i].id, situation |-> situation,
                 emotionContext |-> ctx, response |-> response,
                 line |-> sendEnemyToLLM(enemies[i], situation, ctx, response, r)]
    /\ UNCHANGED <<player, enemies, inCombat, enemyTalking, requests, timers,
                   gameMessage, lastInput, attacks, saved, restores, treasures,
                   pipeline, maps>>

NextLLM == EnemyLineRequested

SpecLLM == Init /\ [][NextLLM]_vars

(* Combat with the timers guaranteed to fire; nothing makes the endpoint *)
(* answer (fetch is called without a timeout or an abort signal).        *)

SpecTimersFire == Init /\ [][Next]_vars /\ WF_vars(TimerFires)

(* Combat with an endpoint that answers or fails: every awaited line of an *)
(* exchange settles (sendEnemyToLLM resolves on a reply and on an error)   *)
(* and the 2 s timer of the counter-attack fires.                          *)

\* A pending request of the given situation completes.
CompletesOf(kind) ==
  /\ RequestCompletes
  /\ \E req \in BagToSet(requests) :
       req.kind = kind /\ requests' = requests (-) SetToBag({req})

\* A timer of the given kind fires.
FiresOf(kind) ==
  /\ TimerFires
  /\ \E i \in DOMAIN timers :
       timers[i].kind = kind /\ timers' = RemoveAt(timers, i)

SpecExchangeRuns ==
  /\ Init /\ [][Next]_vars
  /\ WF_vars(CompletesOf("defend"))
  /\ WF_vars(FiresOf("counter"))
  /\ WF_vars(CompletesOf("counter"))

(* ------------------ emotionDetectionService: lifecycle ------------------ *)

\* Error messages are sequences of words; includes() looks for a word.
MessageIncludes(message, word) == \E i \in DOMAIN message : message[i] = word

\* What the browser reports under a failure that carries its own message.
BrowserMessage == <<"Failed", "to", "fetch">>

\* The ways startDetection can reject.
FailureCauses ==
  {"modelLoad", "NotAllowedError", "NotFoundError", "NotReadableError",
   "metadataTimeout", "videoError"}

\* The message of the Error that startDetection rejects with.
ServiceError(cause) ==
  CASE cause = "modelLoad" ->
         <<"Could", "not", "load", "emotion", "detection", "models:",
           "TinyFaceDetector", "load", "failed:">> \o BrowserMessage
    [] cause = "NotAllowedError" -> <<"Camera", "permission", "denied">>
    [] cause = "NotFoundError" -> <<"No", "camera", "found">>
    [] cause = "NotReadableError" -> <<"Camera", "error:">> \o BrowserMessage
    [] cause = "metadataTimeout" -> <<"Camera", "initialization", "timeout">>
    [] cause = "videoError" -> <<"Video", "element", "failed", "to", "load">>

\* "models:" holds "models"; no message here holds "Model".
IncludesModels(message) ==
  MessageIncludes(message, "models") \/ MessageIncludes(message, "models:")
  \/ MessageIncludes(message, "Model")

\* enableDetection after startDetection resolved
HookSucceeds(h) ==
  IF ~h.mounted THEN h
  ELSE [h EXCEPT !.isEnabled = TRUE, !.isActive = TRUE, !.isLoading = FALSE,
                 !.hasPermission = "true"]

\* The catch block of enableDetection
HookFails(h, message) ==
  IF ~h.mounted THEN h
  ELSE IF MessageIncludes(message, "camera") \/ MessageIncludes(message, "Camera")
    THEN [h EXCEPT !.hasPermission = "false", !.isLoading = FALSE,
                   !.error = "Camera access denied or unavailable",
                   !.isEnabled = FALSE, !.isActive = FALSE]
  ELSE IF IncludesModels(message)
    THEN [h EXCEPT !.isLoading = FALSE,
                   !.error = "Failed to load emotion detection models",
                   !.isEnabled = FALSE, !.isActive = FALSE]
  ELSE [h EXCEPT !.isLoading = FALSE,
                 !.error = "Failed to start emotion detection",
                 !.isEnabled = FALSE, !.isActive = FALSE]

\* handleEmotionUpdate(emotion)
handleEmotionUpdate(h, emotion) ==
  IF ~h.mounted THEN h
  ELSE IF emotion = NullEmotion /\ h.currentEmotion = NullEmotion THEN h
  ELSE IF /\ emotion # NullEmotion /\ h.currentEmotion # NullEmotion
          /\ emotion.primary = h.currentEmotion.primary
          /\ FracNear(emotion.confidence, h.currentEmotion.confidence, MinorChange)
    THEN h
  ELSE [h EXCEPT !.currentEmotion = emotion]

\* How far a call got: the service after it, where it waits next ("done"
\* when startDetection resolved) and the interval timer it started.
Reached(svc, pc, interval) == [service |-> svc, pc |-> pc, interval |-> interval]

\* The setInterval of startDetection
StartInterval(svc, id) ==
  Reached([svc EXCEPT !.detectionInterval = id], "done", id)

\* checkStability, were an exhausted wait to end without the detection timer.
checkStabilityWithoutTimer(svc, id, ready) ==
  IF svc.videoElement = NoId \/ ~ready
    THEN LET counted == [svc EXCEPT !.videoStabilityChecks = @ + 1]
         IN  IF counted.videoStabilityChecks > MAX_STABILITY_CHECKS
               THEN Reached(counted, "done", NoId)
               ELSE Reached(counted, "stability", NoId)
    ELSE StartInterval(svc, id)

\* checkStability(), ready being what the video element reports
checkStability(svc, id, ready) ==
  IF svc.videoElement = NoId \/ ~ready
    THEN LET counted == [svc EXCEPT !.videoStabilityChecks = @ + 1]
         IN  IF counted.videoStabilityChecks > MAX_STABILITY_CHECKS
               THEN StartInterval(counted, id)
               ELSE Reached(counted, "stability", NoId)
    ELSE StartInterval(svc, id)

\* startDetection from its check of isDetecting on
detect(svc, id, ready) ==
  IF svc.isDetecting THEN Reached(svc, "done", NoId)
  ELSE checkStability([svc EXCEPT !.onEmotionCallback = "handleEmotionUpdate",
                                  !.isDetecting = TRUE,
                                  !.sinceDetection = ThrottlePeriods],
                      id, ready)

\* startDetection from its check of videoElement on; startCamera returns at
\* once when a stream is held.
startCamera(svc, id, ready) ==
  IF svc.videoElement = NoId /\ svc.stream = NoId
    THEN Reached(svc, "getUserMedia", NoId)
    ELSE detect(svc, id, ready)

\* startDetection(onEmotionUpdate) up to its first pending await
startDetection(svc, id, ready) ==
  IF ~svc.modelsLoaded THEN Reached(svc, "loadModels", NoId)
  ELSE startCamera(svc, id, ready)

\* The call calls[i] goes on to `reached`; enableDetection sets the state of
\* the hook when startDetection resolved.
Proceeds(i, reached) ==
  /\ service' = reached.service
  /\ intervals' = IF reached.interval = NoId THEN intervals
                  ELSE intervals \cup {reached.interval}
  /\ IF reached.pc = "done"
       THEN /\ calls' = RemoveAt(calls, i)
            /\ hook' = HookSucceeds(hook)
            /\ outcome' = [call |-> calls[i].id, result |-> "enabled"]
       ELSE /\ calls' = [calls EXCEPT ![i].pc = reached.pc]
            /\ UNCHANGED <<hook, outcome>>

\* startDetection rejects in the call calls[i]
Rejects(i, cause) ==
  /\ calls' = RemoveAt(calls, i)
  /\ hook' = HookFails(hook, ServiceError(cause))
  /\ outcome' = [call |-> calls[i].id, result |-> cause]

\* enableDetection(), up to the first pending await of startDetection
EnableCall ==
  /\ hook.mounted /\ spent.enables < MaxEnables
  /\ spent' = [spent EXCEPT !.enables = @ + 1]
  /\ IF ~hook.hasCamera
       THEN /\ hook' = [hook EXCEPT !.error = "No camera available for emotion detection"]
            /\ UNCHANGED <<service, calls, intervals, outcome>>
       ELSE \E ready \in BOOLEAN :
              LET id == spent.enables + 1
                  reached == startDetection(service, id, ready)
                  loading == [hook EXCEPT !.isLoading = TRUE, !.error = None]
                  call == [id |-> id, pc |-> reached.pc, element |-> NoId,
                           redundant |-> hook.isLoading \/ hook.isActive]
              IN  /\ service' = reached.service
                  /\ intervals' = IF reached.interval = NoId THEN intervals
                                  ELSE intervals \cup {reached.interval}
                  /\ IF reached.pc = "done"
                       THEN /\ hook' = HookSucceeds(loading)
                            /\ outcome' = [call |-> id, result |-> "enabled"]
                            /\ UNCHANGED calls
                       ELSE /\ hook' = loading
                            /\ calls' = Append(calls, call)
                            /\ UNCHANGED outcome
  /\ UNCHANGED <<ticks, streams, run, observed, game, maps>>

\* Promise.all(modelPromises) of loadModels settles
ModelsSettle ==
  \E i \in DOMAIN calls : \E loaded \in BOOLEAN : \E ready \in BOOLEAN :
    /\ calls[i].pc = "loadModels"
    /\ IF loaded
         THEN Proceeds(i, startCamera([service EXCEPT !.modelsLoaded = TRUE],
                                      calls[i].id, ready))
         ELSE Rejects(i, "modelLoad") /\ UNCHANGED <<service, intervals>>
    /\ UNCHANGED <<ticks, streams, spent, run, observed, game, maps>>

\* getUserMedia of startCamera settles
GetUserMediaSettles ==
  \E i \in DOMAIN calls :
    /\ calls[i].pc = "getUserMedia"
    /\ \/ /\ service' = [service EXCEPT !.stream = calls[i].id,
                                        !.videoElement = calls[i].id]
          /\ streams' = streams \cup {calls[i].id}
          /\ calls' = [calls EXCEPT ![i].pc = "metadata", ![i].element = calls[i].id]
          /\ UNCHANGED <<hook, outcome, intervals>>
       \/ \E name \in {"NotAllowedError", "NotFoundError", "NotReadableError"} :
            /\ Rejects(i, name)
            /\ UNCHANGED <<service, streams, intervals>>
    /\ UNCHANGED <<ticks, spent, run, observed, game, maps>>

\* The promise startCamera returns settles: onloadedmetadata, onerror or
\* the 10 s timeout
MetadataSettles ==
  \E i \in DOMAIN calls :
    /\ calls[i].pc = "metadata"
    /\ \/ \E ready \in BOOLEAN :
            Proceeds(i, detect([service EXCEPT !.videoStabilityChecks = 0],
                               calls[i].id, ready))
       \/ \E cause \in {"metadataTimeout", "videoError"} :
            /\ Rejects(i, cause)
            /\ UNCHANGED <<service, intervals>>
    /\ UNCHANGED <<ticks, streams, spent, run, observed, game, maps>>

\* setTimeout(checkStability, 200) fires
StabilityTimerFires ==
  \E i \in DOMAIN calls : \E ready \in BOOLEAN :
    /\ calls[i].pc = "stability"
    /\ Proceeds(i, checkStability(service, calls[i].id, ready))
    /\ UNCHANGED <<ticks, streams, spent, run, observed, game, maps>>

\* stopDetection()
stopDetection(svc) ==
  [svc EXCEPT !.isDetecting = FALSE, !.detectionInterval = NoId,
              !.onEmotionCallback = None]

\* disableDetection(); the classifications in flight are from before it.
DisableCall ==
  /\ hook.mounted /\ spent.disables < MaxDisables
  /\ spent' = [spent EXCEPT !.disables = @ + 1]
  /\ service' = stopDetection(service)
  /\ intervals' = intervals \ {service.detectionInterval}
  /\ hook' = [hook EXCEPT !.isEnabled = FALSE, !.isActive = FALSE,
                          !.currentEmotion = NullEmotion, !.error = None]
  /\ ticks' = [i \in DOMAIN ticks |-> [ticks[i] EXCEPT !.stale = TRUE]]
  /\ UNCHANGED <<calls, streams, outcome, run, observed, game, maps>>

\* The hook's checkCameraAvailability settles, once after mounting
CameraAvailabilityChecked ==
  \E hasVideoInput \in BOOLEAN :
    /\ hook.mounted /\ spent.checks = 0
    /\ spent' = [spent EXCEPT !.checks = 1]
    /\ hook' = [hook EXCEPT !.hasCamera = hasVideoInput]
    /\ UNCHANGED <<service, calls, ticks, streams, intervals, outcome, run, observed, game, maps>>

\* The component unmounts; the cleanup reads isActive of the first render,
\* which is false, and does not call stopCamera.
Unmount ==
  /\ hook.mounted
  /\ hook' = [hook EXCEPT !.mounted = FALSE]
  /\ UNCHANGED <<service, calls, ticks, streams, intervals, outcome, spent, run, observed, game, maps>>

\* Enabling and disabling alone, the timers of the stability wait firing
\* in the end.
NextEnabling ==
  \/ EnableCall
  \/ ModelsSettle
  \/ GetUserMediaSettles
  \/ MetadataSettles
  \/ StabilityTimerFires
  \/ DisableCall

SpecEnablingRuns == Init /\ [][NextEnabling]_vars /\ WF_vars(StabilityTimerFires)

(* ------------------ emotionDetectionService: detection ------------------ *)

\* What detectAllFaces(...).withFaceExpressions() gives for the first face.
Expressions ==
  {Scores([happy |-> <<5, 8>>, neutral |-> <<1, 4>>, sad |-> <<1, 8>>]),
   Scores([sad |-> <<1, 2>>, neutral |-> <<1, 4>>]),
   Scores([angry |-> <<9, 20>>, fearful |-> <<2, 5>>, neutral |-> <<1, 10>>])}

\* How the classification settles: with no face, with an error, or with
\* the expressions of the first face.
Detections ==
  {[kind |-> k, expressions |-> Scores(<< >>)] : k \in {"none", "thrown"}}
  \cup {[kind |-> "face", expressions |-> e] : e \in Expressions}

\* The sample detectEmotion hands to updateEmotionHistory for a detection
Sampled(detection) ==
  IF detection.kind \in {"none", "thrown"} THEN NullEmotion
  ELSE IF FracLess(processExpressions(detection.expressions).confidence, MinConfidence)
    THEN NullEmotion
  ELSE processExpressions(detection.expressions)

\* updateEmotionHistory, were it to call back before it smooths.
UpdatesAfterNotifying(svc, newEmotion, detection) ==
  LET history == updateEmotionHistory(svc.emotionHistory, newEmotion)
  IN  /\ service' = [svc EXCEPT !.emotionHistory = history]
      /\ hook' = IF service.onEmotionCallback = None THEN hook
                 ELSE handleEmotionUpdate(hook, svc.emotionHistory.smoothed)
      /\ observed' = [detection |-> detection,
                      notified |-> IF service.onEmotionCallback = None THEN << >>
                                   ELSE <<svc.emotionHistory.smoothed>>]
      /\ run' = IF newEmotion = NullEmotion
                  THEN [run EXCEPT !.ticks = @ + 1]
                  ELSE [from |-> history.smoothed, ticks |-> 0]
      /\ spent' = [spent EXCEPT !.samples = @ + 1]

\* updateEmotionHistory(newEmotion), with the callback
Updates(svc, newEmotion, detection) ==
  LET history == updateEmotionHistory(svc.emotionHistory, newEmotion)
  IN  /\ service' = [svc EXCEPT !.emotionHistory = history]
      /\ hook' = IF service.onEmotionCallback = None THEN hook
                 ELSE handleEmotionUpdate(hook, history.smoothed)
      /\ observed' = [detection |-> detection,
                      notified |-> IF service.onEmotionCallback = None THEN << >>
                                   ELSE <<history.smoothed>>]
      /\ run' = IF newEmotion = NullEmotion
                  THEN [run EXCEPT !.ticks = @ + 1]
                  ELSE [from |-> history.smoothed, ticks |-> 0]
      /\ spent' = [spent EXCEPT !.samples = @ + 1]

\* The callback of setInterval, with detectEmotion() up to its await: ready
\* is whether the video passes the readiness check of detectEmotion.
IntervalTick(id, ready) ==
  /\ id \in intervals
  /\ service.sinceDetection >= ThrottlePeriods
  /\ LET stamped == [service EXCEPT !.sinceDetection = 0]
     IN  IF stamped.videoElement = NoId \/ ~stamped.isDetecting
           THEN /\ service' = stamped
                /\ UNCHANGED <<hook, ticks, spent, run, observed>>
         ELSE IF ~ready
           THEN /\ Updates(stamped, NullEmotion, NotReady)
                /\ UNCHANGED ticks
         ELSE /\ service' = stamped
              /\ ticks' = Append(ticks, [interval |-> id, stale |-> FALSE])
              /\ UNCHANGED <<hook, spent, run, observed>>
  /\ UNCHANGED <<calls, streams, intervals, outcome, game, maps>>

\* An interval timer fires and is not throttled.
IntervalFires ==
  \E id \in intervals : \E ready \in BOOLEAN :
    /\ spent.samples < MaxSamples /\ Len(ticks) < MaxInFlight
    /\ IntervalTick(id, ready)

\* detectAllFaces(...).withFaceExpressions() settles and detectEmotion goes on
ClassificationSettles ==
  \E i \in DOMAIN ticks : \E detection \in Detections :
    /\ Updates(service, Sampled(detection), detection)
    /\ ticks' = RemoveAt(ticks, i)
    /\ UNCHANGED <<calls, streams, intervals, outcome, game, maps>>

\* 200 ms pass
PeriodPasses ==
  /\ service.sinceDetection < ThrottlePeriods
  /\ service' = [service EXCEPT !.sinceDetection = @ + 1]
  /\ UNCHANGED <<hook, calls, ticks, streams, intervals, outcome, spent, run, observed, game, maps>>

NextPipeline ==
  \/ EnableCall
  \/ ModelsSettle
  \/ GetUserMediaSettles
  \/ MetadataSettles
  \/ StabilityTimerFires
  \/ DisableCall
  \/ CameraAvailabilityChecked
  \/ Unmount
  \/ IntervalFires
  \/ ClassificationSettles
  \/ PeriodPasses

SpecPipeline == Init /\ [][NextPipeline]_vars

(* ------------------ emotionDetectionService: fading --------------------- *)

\* Expressions of a face with one score only, which processExpressions
\* takes for primary and detectEmotion does not filter out.
ClearExpressions ==
  {[e \in EmotionLabels |-> IF e = label THEN score ELSE Zero] :
     label \in EmotionLabels,
     score \in {<<3, 8>>, <<1, 2>>, <<5, 8>>, <<3, 4>>, <<7, 8>>, <<1, 1>>}}

\* The pipeline after enableDetection() completed and the first
\* classification gave a sample.
InitFade ==
  /\ player = PlayerData
  /\ enemies = EnemiesData
  /\ inCombat = None
  /\ enemyTalking = FALSE
  /\ requests = EmptyBag
  /\ timers = << >>
  /\ gameMessage = Message("", None)
  /\ lastInput = "none"
  /\ attacks = 0
  /\ reply = NoReply
  /\ saved = [slot \in SaveSlots |-> NoSave]
  /\ restores = 0
  /\ treasures = TreasuresData
  /\ \E expressions \in ClearExpressions :
       LET history == updateEmotionHistory(EmptyHistory,
                        Sampled([kind |-> "face", expressions |-> expressions]))
       IN  /\ service = [ServiceData EXCEPT
                           !.modelsLoaded = TRUE, !.stream = 1, !.videoElement = 1,
                           !.isDetecting = TRUE, !.detectionInterval = 1,
                           !.onEmotionCallback = "handleEmotionUpdate",
                           !.emotionHistory = history, !.sinceDetection = 0]
           /\ hook = handleEmotionUpdate(HookSucceeds(HookState), history.smoothed)
           /\ run = [from |-> history.smoothed, ticks |-> 0]
           /\ observed = Unobserved
  /\ calls = << >>
  /\ ticks = << >>
  /\ streams = {1}
  /\ intervals = {1}
  /\ outcome = [call |-> 1, result |-> "enabled"]
  /\ spent = [enables |-> 1, disables |-> 0, samples |-> 1, checks |-> 1]
  /\ InitMaps

\* An interval timer fires, is not throttled, and detectEmotion finds the
\* video not ready: a "no sample" tick.
NoSampleTick ==
  \E id \in intervals :
    /\ run.ticks < MaxNoSampleTicks
    /\ IntervalTick(id, FALSE)

NextFade ==
  \/ NoSampleTick
  \/ PeriodPasses

SpecFade == InitFade /\ [][NextFade]_vars

(* Detection with a classifier of any latency: detectAllFaces settles    *)
(* whenever it does, before or after later ticks of the interval timer.  *)

\* An interval timer fires, is not throttled, and detectEmotion finds the
\* video ready: a classification starts.
ClassificationStarts ==
  \E id \in intervals :
    /\ Len(ticks) < MaxOverlap
    /\ spent.samples + Len(ticks) < 1 + MaxStarted
    /\ IntervalTick(id, TRUE)

NextLatency ==
  \/ ClassificationStarts
  \/ ClassificationSettles
  \/ PeriodPasses

SpecLatency == InitFade /\ [][NextLatency]_vars

(* Detection of faces of every kind: the score distributions a face can  *)
(* give, classified one after another from the first sample on.          *)

MaxBlended == 3

\* Expressions of a face: scores of happy, sad, surprised and neutral in
\* hundredths, summing to 1.
FaceScores(happy, sad, surprised, neutral) ==
  Scores([happy |-> Frac(happy, 100), sad |-> Frac(sad, 100),
          surprised |-> Frac(surprised, 100), neutral |-> Frac(neutral, 100)])

FaceExpressions ==
  {FaceScores(80, 10, 0, 10), FaceScores(65, 25, 0, 10), FaceScores(60, 30, 0, 10),
   FaceScores(55, 25, 10, 10), FaceScores(45, 40, 0, 15), FaceScores(40, 25, 0, 35),
   FaceScores(35, 30, 0, 35), FaceScores(30, 30, 10, 30), FaceScores(25, 25, 25, 25),
   FaceScores(20, 40, 15, 25), FaceScores(10, 65, 0, 25), FaceScores(10, 10, 0, 80)}

FaceDetections ==
  {[kind |-> k, expressions |-> Scores(<< >>)] : k \in {"none", "thrown"}}
  \cup {[kind |-> "face", expressions |-> e] : e \in FaceExpressions}

\* The pipeline after enableDetection() completed, before the first tick.
InitSamples ==
  /\ player = PlayerData
  /\ enemies = EnemiesData
  /\ inCombat = None
  /\ enemyTalking = FALSE
  /\ requests = EmptyBag
  /\ timers = << >>
  /\ gameMessage = Message("", None)
  /\ lastInput = "none"
  /\ attacks = 0
  /\ reply = NoReply
  /\ saved = [slot \in SaveSlots |-> NoSave]
  /\ restores = 0
  /\ treasures = TreasuresData
  /\ service = [ServiceData EXCEPT
                  !.modelsLoaded = TRUE, !.stream = 1, !.videoElement = 1,
                  !.isDetecting = TRUE, !.detectionInterval = 1,
                  !.onEmotionCallback = "handleEmotionUpdate",
                  !.sinceDetection = ThrottlePeriods]
  /\ hook = HookSucceeds(HookState)
  /\ run = [from |-> NullEmotion, ticks |-> 0]
  /\ observed = Unobserved
  /\ calls = << >>
  /\ ticks = << >>
  /\ streams = {1}
  /\ intervals = {1}
  /\ outcome = [call |-> 1, result |-> "enabled"]
  /\ spent = [enables |-> 1, disables |-> 0, samples |-> 0, checks |-> 1]
  /\ InitMaps

\* An interval timer fires, is not throttled, and detectEmotion finds the
\* video ready, no classification being in flight.
FaceClassificationStarts ==
  \E id \in intervals :
    /\ Len(ticks) = 0
    /\ spent.samples < MaxBlended
    /\ IntervalTick(id, TRUE)

\* detectAllFaces(...).withFaceExpressions() settles with a face of any kind
FaceClassificationSettles ==
  \E i \in DOMAIN ticks : \E detection \in FaceDetections :
    /\ Updates(service, Sampled(detection), detection)
    /\ ticks' = RemoveAt(ticks, i)
    /\ UNCHANGED <<calls, streams, intervals, outcome, game, maps>>

\* An interval timer fires, is not throttled, and detectEmotion finds the
\* video not ready.
UnreadyTick ==
  \E id \in intervals :
    /\ Len(ticks) = 0
    /\ spent.samples < MaxBlended
    /\ IntervalTick(id, FALSE)

NextSamples ==
  \/ FaceClassificationStarts
  \/ FaceClassificationSettles
  \/ UnreadyTick
  \/ PeriodPasses

SpecSamples == InitSamples /\ [][NextSamples]_vars

(* --------------------- utils/proceduralPlacement ----------------------- *)

\* useMapGeneration.generateProceduralMap: the constraints the placer is
\* constructed with.
Constraints ==
  [minDistanceFromPlayer |-> 80,
   minDistanceBetweenEntities |-> 40,
   safeZones |-> <<[x |-> 200, y |-> 100, radius |-> 60],
                   [x |-> 50, y |-> 50, radius |-> 80]>>,
   dangerZones |-> <<[x |-> 400, y |-> 300, radius |-> 100]>>]

IsNpcRule(r) == r.entityType = "npc"
IsEnemyRule(r) == r.entityType = "enemy"
IsTreasureRule(r) == r.entityType = "treasure"

\* placeEntities: the rules in the order it visits them, NPCs first, then
\* enemies, then treasures.
RuleOrderOf(rules) ==
  SelectSeq(rules, IsNpcRule) \o SelectSeq(rules, IsEnemyRule)
    \o SelectSeq(rules, IsTreasureRule)

\* The order of the rules of generateProceduralMap.
RuleOrder == RuleOrderOf(Rules)

\* placeEntities: the list of the result a rule's positions are pushed to.
ResultKey(rule) ==
  CASE rule.entityType = "npc" -> "npcs"
    [] rule.entityType = "enemy" -> "enemies"
    [] OTHER -> "treasures"

\* isValidPosition: const playerSpawn = { x: 50, y: 50 }
playerSpawn == [x |-> 50, y |-> 50]

\* this.distance(a, b) < d, compared on the squares: the coordinates are
\* integers, and Math.sqrt is exact enough to keep the comparison.
distanceBelow(a, b, d) ==
  (a.x - b.x) * (a.x - b.x) + (a.y - b.y) * (a.y - b.y) < d * d

\* calculateTargetCount: Math.floor((area / 10000) * density), or the
\* default count of the entity type. For the canvases within the bounds
\* the floor of the double product is the floor of the exact one.
calculateTargetCount(rule) ==
  IF rule.density # 0
    THEN (CanvasWidth * CanvasHeight * rule.density) \div 100000
    ELSE CASE rule.entityType = "npc" -> 2
           [] rule.entityType = "enemy" -> 4
           [] rule.entityType = "treasure" -> 4
           [] OTHER -> 1

\* generateCandidate: x in [50, canvasWidth - 50), y in [50, canvasHeight -
\* 50); the grid points of that rectangle.
Candidates ==
  {[x |-> 50 + i * GridStep, y |-> 50 + j * GridStep] :
     i \in 0..((CanvasWidth - 101) \div GridStep),
     j \in 0..((CanvasHeight - 101) \div GridStep)}

\* isValidPosition, first check: too near the player spawn.
nearPlayerSpawnAnywhere(pos) == FALSE

nearPlayerSpawn(pos) ==
  distanceBelow(pos, playerSpawn, Constraints.minDistanceFromPlayer)

\* isValidPosition: const inSafeZone = safeZones.some(...)
inSafeZone(pos) ==
  \E z \in DOMAIN Constraints.safeZones :
    distanceBelow(pos, Constraints.safeZones[z], Constraints.safeZones[z].radius)

\* isValidPosition, second check: NPCs must be in a safe zone, enemies
\* must not.
zoneForbidsNothing(pos, rule) == FALSE

zoneForbids(pos, rule) ==
  \/ rule.entityType = "npc" /\ ~inSafeZone(pos)
  \/ rule.entityType = "enemy" /\ inSafeZone(pos)

\* isValidPosition, third check: const tooClose = placedPositions.some(...)
tooCloseNever(placedPositions, pos, rule) == FALSE

tooClose(placedPositions, pos, rule) ==
  \E k \in DOMAIN placedPositions :
    IF placedPositions[k].type \in rule.avoidTypes
      THEN distanceBelow(pos, placedPositions[k],
                         IF rule.minDistance # 0 THEN rule.minDistance ELSE 100)
      ELSE distanceBelow(pos, placedPositions[k],
                         Constraints.minDistanceBetweenEntities)

isValidPosition(placedPositions, pos, rule) ==
  /\ ~nearPlayerSpawn(pos)
  /\ ~zoneForbids(pos, rule)
  /\ ~tooClose(placedPositions, pos, rule)

\* generatePositions: the condition of its while loop, with a loop that
\* runs once more than the target.
loopContinuesPastTarget(p) ==
  /\ Len(p.positions) <= calculateTargetCount(RuleOrderOf(p.rules)[p.rule])
  /\ p.attempts < (calculateTargetCount(RuleOrderOf(p.rules)[p.rule]) + 1) * 10

\* generatePositions: positions.length < targetCount && attempts <
\* maxAttempts, where maxAttempts = targetCount * 10.
loopContinues(p) ==
  /\ Len(p.positions) < calculateTargetCount(RuleOrderOf(p.rules)[p.rule])
  /\ p.attempts < calculateTargetCount(RuleOrderOf(p.rules)[p.rule]) * 10

\* placeEntities between two iterations: while the loop of the current
\* rule is over, generatePositions returns, its positions are pushed to
\* the result and the next rule's call begins.
RECURSIVE generatePositions(_)
generatePositions(p) ==
  IF p.rule \notin DOMAIN RuleOrderOf(p.rules) \/ loopContinues(p) THEN p
  ELSE generatePositions(
         [p EXCEPT !.result[ResultKey(RuleOrderOf(p.rules)[p.rule])] = @ \o p.positions,
                   !.rule = @ + 1, !.positions = << >>, !.attempts = 0])

\* placeEntities has returned its result.
Returned(p) == p.rule = Len(RuleOrderOf(p.rules)) + 1

\* generateProceduralMap: new ProceduralPlacer(...).placeEntities(rules), up
\* to the first candidate drawn.
placeEntities ==
  /\ placer.rule = 0 \/ Returned(placer)
  /\ placer' = generatePositions([PlacerData EXCEPT !.rule = 1])
  /\ UNCHANGED <<game, pipeline, layout>>

\* One iteration of the loop of generatePositions: a candidate is drawn and,
\* if valid, accepted; the attempt is counted.
generateCandidateFrom(candidates) ==
  /\ placer.rule \in DOMAIN RuleOrderOf(placer.rules)
  /\ \E candidate \in candidates :
       LET rule == RuleOrderOf(placer.rules)[placer.rule]
           accepted == isValidPosition(placer.placedPositions, candidate, rule)
           entry == [x |-> candidate.x, y |-> candidate.y,
                     type |-> rule.entityType,
                     id |-> <<rule.entityType, Len(placer.positions) + 1>>]
       IN  placer' = generatePositions(
             [placer EXCEPT
                !.positions = IF accepted THEN Append(@, candidate) ELSE @,
                !.placedPositions = IF accepted THEN Append(@, entry) ELSE @,
                !.attempts = @ + 1])
  /\ UNCHANGED <<game, pipeline, layout>>

generateCandidate == generateCandidateFrom(Candidates)

NextPlace ==
  \/ placeEntities
  \/ generateCandidate

SpecPlace == Init /\ [][NextPlace]_vars

\* The loop of generatePositions keeps running once entered.
SpecPlaceRuns == Init /\ [][NextPlace]_vars /\ WF_vars(generateCandidate)

(* placeEntities with rule sets of any distances, its candidates drawn   *)
(* from a finer grid.                                                    *)

\* generateCandidate on the grid of half the step.
FineCandidates ==
  {[x |-> 50 + i * FineStep, y |-> 50 + j * FineStep] :
     i \in 0..((CanvasWidth - 101) \div FineStep),
     j \in 0..((CanvasHeight - 101) \div FineStep)}

\* new ProceduralPlacer(...).placeEntities(rules) with one of the rule sets,
\* up to the first candidate drawn.
placeEntitiesAny ==
  /\ placer.rule = 0 \/ Returned(placer)
  /\ \E rules \in RuleSets :
       placer' = generatePositions([PlacerData EXCEPT !.rule = 1, !.rules = rules])
  /\ UNCHANGED <<game, pipeline, layout>>

generateCandidateFine == generateCandidateFrom(FineCandidates)

NextPlaceAny ==
  \/ placeEntitiesAny
  \/ generateCandidateFine

SpecPlaceAny == Init /\ [][NextPlaceAny]_vars

(* -------------------------- utils/layoutUtils -------------------------- *)

\* data/gameLayout: namedPositions
namedPositions ==
  [merchantCorner |-> [x |-> 200, y |-> 100],
   wizardTower |-> [x |-> 600, y |-> 300],
   centerCourt |-> [x |-> 400, y |-> 300],
   northGate |-> [x |-> 400, y |-> 50],
   southGate |-> [x |-> 400, y |-> 550],
   eastWall |-> [x |-> 750, y |-> 300],
   westWall |-> [x |-> 50, y |-> 300]]

\* data/gameLayout: spawnZones
spawnZones ==
  [enemyPatrol |-> [minX |-> 350, maxX |-> 650, minY |-> 150, maxY |-> 450,
                    avoid |-> {"merchantCorner", "wizardTower"}],
   treasureScatter |-> [minX |-> 50, maxX |-> 750, minY |-> 50, maxY |-> 550,
                        avoid |-> {"merchantCorner", "wizardTower"}],
   safeZone |-> [minX |-> 50, maxX |-> 350, minY |-> 50, maxY |-> 200,
                 avoid |-> {}]]

\* resolvePosition: the default parameters canvasWidth and canvasHeight.
LayoutCanvasWidth == 800
LayoutCanvasHeight == 600

\* resolvePosition: return { x: 100, y: 100 }
DefaultPosition == [x |-> 100, y |-> 100]

\* getRandomPositionInZone: const attempts = 10
ZoneAttempts == 10

\* getRandomPositionInZone: return distance < 60
AvoidDistance == 60

\* placement.position: absent, the name of a position, or coordinates.
NoPosition == [kind |-> "absent", name |-> None, x |-> 0, y |-> 0]
Named(name) == [kind |-> "named", name |-> name, x |-> 0, y |-> 0]
At(x, y) == [kind |-> "point", name |-> None, x |-> x, y |-> y]

\* EntityPlacement: the placements of gameLayouts, by their shapes, and
\* placements that name a position or a zone that does not exist, or give
\* neither.
Placements ==
  {[position |-> Named("merchantCorner"), zone |-> None],
   [position |-> Named("westWall"), zone |-> None],
   [position |-> At(150, 450), zone |-> None],
   [position |-> NoPosition, zone |-> "enemyPatrol"],
   [position |-> NoPosition, zone |-> "treasureScatter"],
   [position |-> NoPosition, zone |-> "safeZone"],
   [position |-> Named("throneRoom"), zone |-> None],
   [position |-> Named("throneRoom"), zone |-> "safeZone"],
   [position |-> NoPosition, zone |-> "graveyard"],
   [position |-> NoPosition, zone |-> None]}

\* Math.random() * (max - min) + min: the grid points of [min, max).
RandomBetween(min, max) ==
  {min + k * ZoneStep : k \in 0..((max - min - 1) \div ZoneStep)}

\* getRandomPositionInZone: const tooClose = zone.avoid.some(...)
avoidedNever(zone, x, y) == FALSE

avoided(zone, x, y) ==
  \E avoidName \in zone.avoid :
    /\ avoidName \in DOMAIN namedPositions
    /\ distanceBelow([x |-> x, y |-> y], namedPositions[avoidName],
                     AvoidDistance)

\* getRandomPositionInZone: the zone center, returned after the loop.
ZoneCenter(zone) ==
  [x |-> (zone.minX + zone.maxX) \div 2, y |-> (zone.minY + zone.maxY) \div 2]

\* A resolvePosition call has returned.
Resolved == layout.returned # << >>

\* resolvePosition(placement), up to its return or, for a placement in a
\* known zone, up to the first iteration of getRandomPositionInZone.
resolvePosition ==
  /\ ~layout.called \/ Resolved
  /\ \E placement \in Placements :
       \/ /\ placement.position.kind = "named"
          /\ layout' =
               [called |-> TRUE, placement |-> placement, i |-> 0,
                returned |->
                  IF placement.position.name \in DOMAIN namedPositions
                    THEN <<namedPositions[placement.position.name]>>
                    ELSE <<DefaultPosition>>]
       \/ /\ placement.position.kind = "point"
          /\ layout' =
               [called |-> TRUE, placement |-> placement, i |-> 0,
                returned |-> <<[x |-> placement.position.x,
                                y |-> placement.position.y]>>]
       \/ /\ placement.position.kind = "absent"
          /\ placement.zone # None
          /\ layout' =
               [called |-> TRUE, placement |-> placement, i |-> 0,
                returned |-> IF placement.zone \in DOMAIN spawnZones
                               THEN << >> ELSE <<DefaultPosition>>]
       \/ /\ placement.position.kind = "absent"
          /\ placement.zone = None
          /\ \E x \in RandomBetween(25, LayoutCanvasWidth - 25),
                y \in RandomBetween(25, LayoutCanvasHeight - 25) :
               layout' = [called |-> TRUE, placement |-> placement, i |-> 0,
                          returned |-> <<[x |-> x, y |-> y]>>]
  /\ UNCHANGED <<game, pipeline, placer>>

\* One iteration of the loop of getRandomPositionInZone, and the return of
\* the center when it was the last.
getRandomPositionInZone ==
  /\ layout.called
  /\ ~Resolved
  /\ LET zone == spawnZones[layout.placement.zone]
     IN  \E x \in RandomBetween(zone.minX, zone.maxX),
            y \in RandomBetween(zone.minY, zone.maxY) :
           layout' =
             IF ~avoided(zone, x, y)
               THEN [layout EXCEPT !.returned = <<[x |-> x, y |-> y]>>]
             ELSE IF layout.i + 1 < ZoneAttempts
               THEN [layout EXCEPT !.i = @ + 1]
             ELSE [layout EXCEPT !.i = @ + 1,
                                 !.returned = <<ZoneCenter(zone)>>]
  /\ UNCHANGED <<game, pipeline, placer>>

NextLayout ==
  \/ resolvePosition
  \/ getRandomPositionInZone

\* The loop of getRandomPositionInZone keeps running once entered.
SpecLayoutRuns ==
  Init /\ [][NextLayout]_vars /\ WF_vars(getRandomPositionInZone)

(* ------------------------------ claims --------------------------------- *)


HealthOf(es, id) == es[IndexOfId(es, id)].health

\* A step of attack(): neither an engage nor a flee, no timer set or fired,
\* no request completed.
AttackStep ==
  /\ lastInput' \in {"attack", "attackIgnored"}
  /\ timers' = timers
  /\ BagCardinality(requests') >= BagCardinality(requests)

\* C1: attack() invoked while enemyTalking is true changes no enemy's health.
C1_AttackWhileTalkingIsNoOp ==
  [][(enemyTalking /\ AttackStep) =>
       \A id \in EnemyIds : HealthOf(enemies', id) = HealthOf(enemies, id)]_vars

\* An attack was made and ignored while the enemy of a session was talking.
C1_Witness ==
  lastInput = "attackIgnored" /\ enemyTalking /\ inCombat # None


(* C2 *)

\* The multiplier table of the claim, in percent.
ClaimedMultiplier(ctx) ==
  IF ~ctx.isEmotionActive THEN 100
  ELSE IF ctx.emotionDescription \cap {"angry", "frustrated"} # {} THEN 120
  ELSE IF ctx.emotionDescription \cap {"fearful", "anxious"} # {} THEN 80
  ELSE IF ctx.emotionDescription \cap {"happy", "cheerful"} # {} THEN 110
  ELSE IF ctx.emotionDescription \cap {"sad", "melancholy"} # {} THEN 90
  ELSE 100

ClaimedDamage(level, ctx) == RoundDiv((20 + level * 5) * ClaimedMultiplier(ctx), 100)

\* The request this step has added: the one an accepted attack awaits.
Added(req) == CopiesIn(req, requests') = CopiesIn(req, requests) + 1

\* C2: every accepted attack (session active, enemy not talking) lowers the
\* health of the session's enemy by exactly round((20 + level*5) * multiplier)
\* with the multiplier of the claim's table for the emotion the attack was
\* made with, and leaves every other enemy's health alone.
C2_AcceptedAttackDamage ==
  [][(inCombat # None /\ ~enemyTalking /\ AttackStep) =>
       \E req \in BagToSet(requests') :
         /\ Added(req)
         /\ req.enemy.id = inCombat
         /\ \A id \in EnemyIds :
              HealthOf(enemies', id) =
                IF id = inCombat
                  THEN HealthOf(enemies, id) - ClaimedDamage(player.level, req.ctx)
                  ELSE HealthOf(enemies, id)]_vars

\* A cheerful level-1 player has just hit the first enemy for
\* round(25 * 1.1) = 28, a tie that rounds upwards.
C2_Witness ==
  /\ lastInput = "attack"
  /\ player.level = 1
  /\ \E req \in BagToSet(requests) :
       req.kind = "death" /\ "cheerful" \in req.ctx.emotionDescription
  /\ HealthOf(enemies, EnemiesData[1].id) = EnemiesData[1].health - 28

(* C3 *)

EnemyOf(es, id) == es[IndexOfId(es, id)]

\* The continuation of a lethal attack has run: its death line is no
\* longer awaited.
VictoryStep(req) ==
  req.kind = "death" /\ CopiesIn(req, requests') < CopiesIn(req, requests)

\* C3: an accepted attack that leaves the enemy's health <= 0, exactly 0
\* included, takes the victory branch, and the victory marks the enemy
\* defeated, adds 15 + enemy.damage experience and 10..29 gold, and clears
\* the session.
C3_LethalAttackIsVictory ==
  [][/\ (inCombat # None /\ ~enemyTalking /\ AttackStep
           /\ HealthOf(enemies', inCombat) <= 0) =>
          \E req \in BagToSet(requests') :
            Added(req) /\ req.kind = "death" /\ req.enemy.id = inCombat
     /\ \A req \in BagToSet(requests) :
          VictoryStep(req) =>
            /\ EnemyOf(enemies', req.enemy.id).defeated
            /\ player'.experience =
                 player.experience + 15 + EnemyOf(enemies, req.enemy.id).damage
            /\ (player'.gold - player.gold) \in 10..29
            /\ inCombat' = None]_vars

\* The first enemy was brought to exactly 0 and the victory paid out the
\* largest gold gain.
C3_Witness ==
  /\ EnemyOf(enemies, EnemiesData[1].id).health = 0
  /\ EnemyOf(enemies, EnemiesData[1].id).defeated
  /\ player.experience = PlayerData.experience + 15 + EnemiesData[1].damage
  /\ player.gold = PlayerData.gold + 29
  /\ inCombat = None

(* C4 *)

\* C4: when experience is gained the level rises by exactly one if
\* experience + gained >= level * 100 and is unchanged otherwise; never by
\* more than one.
C4_OneLevelPerVictory ==
  [][player'.experience # player.experience =>
       /\ player'.level =
            IF player'.experience >= player.level * 100
              THEN player.level + 1 ELSE player.level
       /\ player'.level <= player.level + 1]_vars

\* A single gain took the player across two thresholds (100 and 200) and
\* the level is 2.
C4_Witness ==
  /\ player.level = PlayerData.level + 1
  /\ player.experience >= (PlayerData.level + 1) * 100
  /\ attacks = 1

(* C5 *)

\* C5: the mechanical outcomes of an attack are applied without depending
\* on a dialogue request completing: an enemy whose health an attack has
\* brought to 0 or below is defeated, whatever dialogue is still awaited.
C5_OutcomesNotContingentOnDialogue ==
  \A i \in DOMAIN enemies : enemies[i].health <= 0 => enemies[i].defeated

(* C6 *)

\* C6: whenever a session is in EnemyTalking it eventually returns to the
\* player's turn or resolves, the timers firing, whether or not the
\* dialogue request has completed.
C6_TalkingEventuallyEnds ==
  (inCombat # None /\ enemyTalking) ~> (inCombat = None \/ ~enemyTalking)

(* C7 *)

\* C7: sendEnemyToLLM never propagates an error, and on every failed reply
\* (transport or malformed) the line it returns is one of the enemy's
\* battle cries, in every situation.
C7_FailureYieldsBattleCry ==
  reply.response \in FailedResponses =>
    /\ reply.line.type = "string"
    /\ \E i \in DOMAIN enemies :
         /\ enemies[i].id = reply.enemy
         /\ \E c \in DOMAIN enemies[i].battleCries :
              reply.line.value = enemies[i].battleCries[c]

(* C8 *)

\* A step of flee(): no request or timer is touched by it.
FleeStep ==
  /\ lastInput' \in {"flee", "fleeAfterEngage", "fleeAgain"}
  /\ requests' = requests
  /\ timers' = timers
  /\ attacks' = attacks

\* C8: flee() can be called in every state, talking or not, dialogue
\* pending or not; each call leaves the session cleared and the talking
\* flag false and lowers x and y by 50 each, floored at 0.
C8_FleeAlwaysClearsAndDisplaces ==
  /\ [](ENABLED KeyFlee)
  /\ [][FleeStep =>
         /\ inCombat' = None
         /\ ~enemyTalking'
         /\ player'.x = Max(0, player.x - 50)
         /\ player'.y = Max(0, player.y - 50)]_vars

\* Two flights in succession, the first from a talking enemy whose line is
\* still awaited: the player has been displaced twice, to the floor.
C8_Witness ==
  /\ lastInput = "fleeAgain"
  /\ inCombat = None /\ ~enemyTalking
  /\ player.x = 0 /\ player.y = 0
  /\ \E req \in BagToSet(requests) : req.kind = "engage"

(* C9 *)

\* A task of an engagement completes: its opening line arrives or its
\* 3 s timer fires.
EngagementTaskStep ==
  \/ \E req \in BagToSet(requests) :
       req.kind = "engage" /\ CopiesIn(req, requests') < CopiesIn(req, requests)
  \/ \E i \in DOMAIN timers :
       timers[i].kind = "engage" /\ timers' = RemoveAt(timers, i)

EngageStep == inCombat = None /\ inCombat' # None

\* C9: engaging, fleeing and every timer and dialogue request of an
\* engagement leave the health and the defeated flag of every enemy as
\* they were; with no attack accepted the enemies are as at the start.
C9_EngageFleeLeavesEnemy ==
  /\ [](attacks = 0 => enemies = EnemiesData)
  /\ [][(EngageStep \/ FleeStep \/ EngagementTaskStep) =>
          \A id \in EnemyIds :
            /\ HealthOf(enemies', id) = HealthOf(enemies, id)
            /\ EnemyOf(enemies', id).defeated = EnemyOf(enemies, id).defeated]_vars

\* A damaged enemy was engaged again and fled from at once, and the line
\* and the timer of that engagement have completed.
C9_Witness ==
  /\ lastInput = "fleeAfterEngage"
  /\ requests = EmptyBag /\ timers = << >>
  /\ gameMessage.kind = "battleCry"
  /\ \E i \in DOMAIN enemies :
       /\ enemies[i].id = gameMessage.enemy
       /\ enemies[i].health < EnemiesData[i].health
       /\ ~enemies[i].defeated

(* C10 *)

\* C10: a session starts only when none is active and only with an enemy
\* that is not defeated; an engage while a session is active does not
\* replace it.
C10_EngageOnlyWhenIdleAndAlive ==
  [][(inCombat' # inCombat /\ inCombat' # None) =>
       /\ inCombat = None
       /\ ~EnemyOf(enemies, inCombat').defeated]_vars

\* Engage was pressed next to a defeated enemy and nothing started.
C10_Witness ==
  /\ lastInput = "engageRefused"
  /\ inCombat = None
  /\ nearbyEnemyDefeatedToo # 0
  /\ enemies[nearbyEnemyDefeatedToo].defeated

(* C11 *)

\* The step is one of the session's own enemy: its 3 s timer fires or the
\* line of its counter-attack arrives.
OwnTalkingEnds ==
  \/ \E i \in DOMAIN timers :
       /\ timers[i].kind = "engage"
       /\ timers[i].enemy.id = inCombat
       /\ timers' = RemoveAt(timers, i)
  \/ \E req \in BagToSet(requests) :
       /\ req.kind = "counter"
       /\ req.enemy.id = inCombat
       /\ CopiesIn(req, requests') < CopiesIn(req, requests)

\* C11: the EnemyTalking phase of the current session is ended by nothing
\* but that session's own delay: while the session stays, the talking flag
\* falls only when a timer or a continuation set for the session's enemy
\* completes, never through one left by an earlier engagement.
C11_TalkingEndsOnlyByOwnDelay ==
  [][(inCombat # None /\ inCombat' = inCombat /\ enemyTalking /\ ~enemyTalking')
       => OwnTalkingEnds]_vars

(* C12 *)

\* C12: a dialogue line that arrives after the player has fled is
\* discarded: as long as flight is the last thing the player did, the
\* message shown is the one flee() set, not a line of the fled session.
C12_LateLineDiscardedAfterFlight ==
  lastInput \in {"flee", "fleeAfterEngage", "fleeAgain"} =>
    gameMessage.kind = "fled"

(* C13 *)

\* C13: in every reachable state an active session is on an enemy that is
\* not defeated, also when a save is restored over the enemy collection.
C13_SessionEnemyNotDefeated ==
  inCombat # None => ~EnemyOf(enemies, inCombat).defeated

(* C14 *)

\* C14: after any sequence of combat, treasure collection and trading the
\* player's health is within 0..maxHealth and the player's gold is >= 0.
C14_HealthAndGoldInRange ==
  /\ player.health >= 0
  /\ player.health <= player.maxHealth
  /\ player.gold >= 0

\* A counter-attack larger than the player's health has floored it at 0
\* and was followed by a potion, and a sale has paid gold.
C14_Witness ==
  /\ player.health = PotionHealth
  /\ player.gold > PlayerData.gold
  /\ \E k \in DOMAIN treasures : treasures[k].collected

\* A step of an enableDetection call that was made while the hook was
\* loading or active: the call itself, or one of its continuations.
RedundantEnableStep ==
  \/ /\ spent'.enables = spent.enables + 1
     /\ hook.isLoading \/ hook.isActive
  \/ \E i \in DOMAIN calls :
       /\ calls[i].redundant
       /\ \/ calls' = RemoveAt(calls, i)
          \/ Len(calls') = Len(calls) /\ calls'[i] # calls[i]

\* C15: enable() is idempotent: a call made while the pipeline is already
\* active or still loading is a no-op, so it acquires no camera stream,
\* replaces no video element and starts no detection timer.
C15_RedundantEnableIsNoOp ==
  [][RedundantEnableStep =>
       /\ streams' = streams
       /\ intervals' = intervals
       /\ service'.stream = service.stream
       /\ service'.videoElement = service.videoElement]_vars

\* C16: at most one camera stream is held at any time: every stream that
\* was acquired and not stopped is the one the service refers to, so that no
\* second acquired stream is left that can never be released.
C16_AtMostOneStreamHeld ==
  /\ Cardinality(streams) <= 1
  /\ streams \subseteq {service.stream}

\* A step in which disableDetection() runs.
DisableStep == spent'.disables = spent.disables + 1

\* C17: disable() always succeeds and, once it returns, no detection timer
\* is running, the camera stream and its tracks are released and the
\* smoothed estimate is null; and while detection is off no timer of an
\* earlier enable() runs, also when disable() came while enable() was
\* waiting for the video to stabilise.
C17_DisableReleasesEverything ==
  /\ [][DisableStep =>
          /\ intervals' = {}
          /\ streams' = {}
          /\ service'.stream = NoId
          /\ service'.emotionHistory.smoothed = NullEmotion]_vars
  /\ [](~service.isDetecting => intervals = {})

\* A step in which a classification settles that was started before
\* disableDetection() ran.
StaleResultStep ==
  \E i \in DOMAIN ticks : ticks[i].stale /\ ticks' = RemoveAt(ticks, i)

\* C18: a classification result arriving for a tick started before
\* disable() is discarded: it changes neither the emotion history nor the
\* smoothed estimate, and reaches no subscriber, so the hook's current
\* emotion stays as it is.
C18_LateResultDiscarded ==
  [][StaleResultStep =>
       /\ service'.emotionHistory = service.emotionHistory
       /\ hook'.currentEmotion = hook.currentEmotion]_vars

\* The error the hook shows for each way startDetection rejects.
ErrorShown(cause) == HookFails(HookState, ServiceError(cause)).error

\* The failure classes the hook's error is to tell apart.
FailureClass(cause) ==
  CASE cause = "modelLoad" -> "resource-load-failure"
    [] cause = "NotAllowedError" -> "camera-permission-denied"
    [] cause = "NotFoundError" -> "no-camera-found"
    [] OTHER -> "generic"

\* The pipeline is Disabled with an error and no detection timer.
FailedClosed ==
  /\ ~hook.isEnabled /\ ~hook.isActive /\ ~hook.isLoading
  /\ hook.error # None
  /\ intervals = {}

\* A step in which the only enableDetection call in flight fails.
EnableFailsStep ==
  /\ Len(calls) = 1 /\ calls' = << >>
  /\ outcome'.call = calls[1].id
  /\ outcome'.result \in FailureCauses

\* C19: when model loading or camera acquisition fails during enable(), the
\* pipeline ends Disabled (not enabled, not active, not loading) with a
\* non-null error and no detection timer, and the error tells the class of
\* the failure: no failure of another class shows the same error.
C19_FailsClosedWithTypedError ==
  [][(EnableFailsStep /\ hook.mounted) =>
       /\ FailedClosed'
       /\ \A cause \in FailureCauses :
            ErrorShown(cause) = hook'.error =>
              FailureClass(cause) = FailureClass(outcome'.result)]_vars

\* confidence * 0.8^k
RECURSIVE Decayed(_, _)
Decayed(confidence, k) ==
  IF k = 0 THEN confidence ELSE FracMul(Decayed(confidence, k - 1), FadeFactor)

\* C20: from a smoothed sample of confidence 0.5, each consecutive "no
\* sample" tick multiplies the confidence by 0.8 and leaves the rest of the
\* sample alone while the product is not below 0.2; the sample is null from
\* the fifth tick on and stays null.
C20_FadeFromHalf ==
  run.from.confidence = <<1, 2>> =>
    /\ run.ticks < 5 =>
         service.emotionHistory.smoothed =
           [run.from EXCEPT !.confidence = Decayed(<<1, 2>>, run.ticks)]
    /\ run.ticks < 5 => ~FracLess(Decayed(<<1, 2>>, run.ticks), ClearThreshold)
    /\ FracLess(Decayed(<<1, 2>>, 5), ClearThreshold)
    /\ run.ticks >= 5 => service.emotionHistory.smoothed = NullEmotion

C20_Witness ==
  /\ run.from.confidence = <<1, 2>>
  /\ run.ticks = MaxNoSampleTicks
  /\ service.emotionHistory.smoothed = NullEmotion
  /\ service.emotionHistory.current = NullEmotion

\* How many entries of the inventory are the item.
Count(inventory, item) == Cardinality({i \in DOMAIN inventory : inventory[i] = item})

\* The step is the key handler passing the utterance to sendToLLM.
TalkStep(said, ctx) ==
  /\ isNearEntity(player.x, player.y, TraderData.x, TraderData.y, NearThreshold)
  /\ Pending < MaxPending
  /\ sendToLLM(said, ctx)
  /\ lastInput' = Input("talk")

\* The utterance has sell, trade or buy intent and names a catalog item.
NamesItem(said) == said.verb \in {"sell", "trade", "buy"} /\ said.named # None

\* C21: when the utterance has sell/trade/buy intent and names a catalog
\* item the player holds, the sale completes without a network call: one
\* entry of the named item leaves the inventory, every other entry stays,
\* duplicates of the named item included, and the gold rises once by the
\* price of the named item.
C21_SaleRemovesOneNamedEntry ==
  [][\A said \in Utterances : \A ctx \in TradeContexts :
       (NamesItem(said) /\ Count(player.inventory, said.named) > 0
          /\ TalkStep(said, ctx)) =>
         /\ requests' = requests
         /\ \A item \in Catalog :
              Count(player'.inventory, item) =
                Count(player.inventory, item) - (IF item = said.named THEN 1 ELSE 0)
         /\ player'.gold = player.gold + finalPrice(said.named, ctx)]_vars

\* The multiplier the trader is to apply, in percent: 110 for sad, 115 for
\* angry, 105 for fearful, 100 otherwise; the context carries what
\* getEmotionDescription() gives for the label.
ClaimedPercent(ctx) ==
  IF ~ctx.isEmotionActive THEN 100
  ELSE IF ctx.emotionDescription = {"melancholy", "downcast"} THEN 110
  ELSE IF ctx.emotionDescription = {"frustrated", "irritated"} THEN 115
  ELSE IF ctx.emotionDescription = {"anxious", "worried"} THEN 105
  ELSE 100

\* The price of the item the utterance sells.
SoldPrice(said) == itemPrices[player.inventory[itemToSell(player.inventory, said)]]

\* The step is a sale made for the utterance.
SaleStep(said, ctx) ==
  /\ TalkStep(said, ctx)
  /\ Len(player'.inventory) < Len(player.inventory)

\* C22: the gold credited for a sale is price * m rounded, m being 1.1 for
\* sad, 1.15 for angry, 1.05 for fearful and 1 otherwise, and it is neither
\* below the price nor more than 15% above it.
C22_CreditedIsRoundedBonus ==
  [][\A said \in Utterances : \A ctx \in TradeContexts :
       SaleStep(said, ctx) =>
         /\ player'.gold - player.gold = RoundDiv(SoldPrice(said) * ClaimedPercent(ctx), 100)
         /\ player'.gold - player.gold >= SoldPrice(said)
         /\ (player'.gold - player.gold) * 100 <= SoldPrice(said) * 115]_vars

\* C23: when the utterance has sell/trade/buy intent and names a catalog
\* item the player does not hold, the trader refuses: no network call is
\* made, and inventory and gold stay as they are.
C23_NotOwnedIsRefused ==
  [][\A said \in Utterances : \A ctx \in TradeContexts :
       (NamesItem(said) /\ Count(player.inventory, said.named) = 0
          /\ TalkStep(said, ctx)) =>
         /\ gameMessage'.kind = "notOwned"
         /\ requests' = requests
         /\ player'.inventory = player.inventory
         /\ player'.gold = player.gold]_vars

\* The points a placement run has given out so far: the entries of
\* placedPositions, the positions of the running generatePositions call
\* and the lists of the result.
ResultPoints(key) == {placer.result[key][k] : k \in DOMAIN placer.result[key]}

GivenOut ==
  {[x |-> placer.placedPositions[k].x, y |-> placer.placedPositions[k].y] :
     k \in DOMAIN placer.placedPositions}
    \cup {placer.positions[k] : k \in DOMAIN placer.positions}
    \cup ResultPoints("npcs") \cup ResultPoints("enemies")
    \cup ResultPoints("treasures")

\* C24: in every placement run, whatever the category, no accepted position
\* is closer than minDistanceFromPlayer = 80 to the player spawn (50, 50).
C24_AcceptedFarFromSpawn ==
  \A pos \in GivenOut :
    (pos.x - 50) * (pos.x - 50) + (pos.y - 50) * (pos.y - 50) >= 80 * 80

\* A run has returned with positions in all three categories.
C24_Witness ==
  /\ Returned(placer)
  /\ placer.result.npcs # << >>
  /\ placer.result.enemies # << >>
  /\ placer.result.treasures # << >>

\* Strictly inside the circle of radius r around (cx, cy).
InsideCircle(pos, cx, cy, r) ==
  (pos.x - cx) * (pos.x - cx) + (pos.y - cy) * (pos.y - cy) < r * r

\* Inside the merchant's safe zone or the spawn's safe zone.
InsideSomeSafeZone(pos) ==
  InsideCircle(pos, 200, 100, 60) \/ InsideCircle(pos, 50, 50, 80)

\* C25: every accepted NPC position lies inside at least one safe zone and
\* every accepted enemy position lies outside all safe zones, in the placed
\* entries and in the result; treasures are held to neither.
C25_SafeZonePolicy ==
  /\ \A k \in DOMAIN placer.placedPositions :
       LET placed == placer.placedPositions[k]
       IN  /\ placed.type = "npc" => InsideSomeSafeZone(placed)
           /\ placed.type = "enemy" => ~InsideSomeSafeZone(placed)
  /\ \A pos \in ResultPoints("npcs") : InsideSomeSafeZone(pos)
  /\ \A pos \in ResultPoints("enemies") : ~InsideSomeSafeZone(pos)

\* A run has returned an NPC, an enemy, a treasure inside a safe zone and a
\* treasure outside all of them.
C25_Witness ==
  /\ Returned(placer)
  /\ placer.result.npcs # << >>
  /\ placer.result.enemies # << >>
  /\ \E pos \in ResultPoints("treasures") : InsideSomeSafeZone(pos)
  /\ \E pos \in ResultPoints("treasures") : ~InsideSomeSafeZone(pos)

\* The distance a rule keeps from an earlier point of the given category:
\* the rule's own minDistance for the categories on its avoid-list (NPCs
\* avoid enemies at 150, enemies avoid NPCs at 60, treasures avoid no
\* category), the general minimum separation of 40 otherwise.
RequiredSeparation(accepting, earlier) ==
  IF accepting = "npc" /\ earlier = "enemy" THEN 150
  ELSE IF accepting = "enemy" /\ earlier = "npc" THEN 60
  ELSE 40

\* A step of the run that accepts a candidate.
AcceptStep ==
  Len(placer'.placedPositions) = Len(placer.placedPositions) + 1

\* C26: at the moment a position is accepted it is at least the accepting
\* rule's minDistance away from every earlier point of the run whose
\* category is on the rule's avoid-list, and at least the general minimum
\* separation away from every other earlier point, whatever its category.
C26_SeparationAtAcceptance ==
  [][AcceptStep =>
       LET new == placer'.placedPositions[Len(placer'.placedPositions)]
       IN  \A k \in DOMAIN placer.placedPositions :
             LET earlier == placer.placedPositions[k]
                 required == RequiredSeparation(new.type, earlier.type)
             IN  /\ placer'.placedPositions[k] = earlier
                 /\ (new.x - earlier.x) * (new.x - earlier.x)
                      + (new.y - earlier.y) * (new.y - earlier.y)
                    >= required * required]_vars

\* An enemy was accepted after an NPC, and a treasure after both and after
\* another treasure.
C26_Witness ==
  \E n, e, t, u \in DOMAIN placer.placedPositions :
    /\ n < e /\ e < t /\ t < u
    /\ placer.placedPositions[n].type = "npc"
    /\ placer.placedPositions[e].type = "enemy"
    /\ placer.placedPositions[t].type = "treasure"
    /\ placer.placedPositions[u].type = "treasure"

\* The target count of the rule that fills the given list of the result.
TargetOf(key) ==
  LET k == CHOOSE k \in DOMAIN RuleOrder : ResultKey(RuleOrder[k]) = key
  IN  calculateTargetCount(RuleOrder[k])

\* placeEntities is inside one of its generatePositions calls.
Placing == placer.rule \in DOMAIN RuleOrder

\* C27: placement terminates: a run that has begun returns, and for every
\* rule the number of positions returned is between 0 and the rule's target
\* count; the attempts of one call never exceed ten times the target.
C27_TerminatesWithinTarget ==
  /\ [](/\ \A key \in DOMAIN placer.result :
             Len(placer.result[key]) \in 0..TargetOf(key)
        /\ Placing =>
             /\ Len(placer.positions)
                  <= calculateTargetCount(RuleOrder[placer.rule])
             /\ placer.attempts
                  <= 10 * calculateTargetCount(RuleOrder[placer.rule]))
  /\ (Placing ~> Returned(placer))

\* A run has returned with one category at its target and another below
\* it, its attempts spent.
C27_Witness ==
  /\ Returned(placer)
  /\ Len(placer.result.npcs) = TargetOf("npcs")
  /\ Len(placer.result.enemies) < TargetOf("enemies")

\* The named points a zone avoids: those of its avoid names that exist.
AvoidedPoints(zone) ==
  {namedPositions[name] : name \in zone.avoid \cap DOMAIN namedPositions}

\* At least 60 units from every named point the zone avoids.
ClearOfAvoided(zone, pos) ==
  \A named \in AvoidedPoints(zone) :
    (pos.x - named.x) * (pos.x - named.x)
      + (pos.y - named.y) * (pos.y - named.y) >= 60 * 60

\* C28: every resolvePosition call returns a position. For a placement in a
\* known zone it is a point of the zone's rectangle that is at least 60
\* units from every named point the zone avoids, or it is the zone's centre
\* returned after 10 failed attempts; a placement that names an unknown
\* position, or an unknown zone, gets (100, 100).
C28_EveryPlacementResolved ==
  /\ [](Resolved =>
          LET pos == layout.returned[1]
              position == layout.placement.position
              zone == layout.placement.zone
          IN  /\ Len(layout.returned) = 1
              /\ (position.kind = "named"
                    /\ position.name \notin DOMAIN namedPositions)
                   => pos = [x |-> 100, y |-> 100]
              /\ (position.kind = "absent" /\ zone # None
                    /\ zone \notin DOMAIN spawnZones)
                   => pos = [x |-> 100, y |-> 100]
              /\ (position.kind = "absent" /\ zone \in DOMAIN spawnZones)
                   => /\ pos.x >= spawnZones[zone].minX
                      /\ pos.x <= spawnZones[zone].maxX
                      /\ pos.y >= spawnZones[zone].minY
                      /\ pos.y <= spawnZones[zone].maxY
                      /\ \/ ClearOfAvoided(spawnZones[zone], pos)
                         \/ /\ layout.i = 10
                            /\ 2 * pos.x
                                 = spawnZones[zone].minX + spawnZones[zone].maxX
                            /\ 2 * pos.y
                                 = spawnZones[zone].minY + spawnZones[zone].maxY)
  /\ ((layout.called /\ ~Resolved) ~> Resolved)

\* A zone placement fell back to the centre of its zone after 10 attempts.
C28_Witness ==
  /\ Resolved
  /\ layout.placement.zone = "enemyPatrol"
  /\ layout.i = 10
  /\ layout.returned[1] = [x |-> 500, y |-> 300]

(* C29 *)

\* The counter-damage of the claim: the enemy's damage, times 1.15 and
\* rounded for a fearful player, times 0.95 and rounded for an angry one.
ClaimedCounterDamage(damage, ctx) ==
  IF ctx.isEmotionActive /\ ctx.emotionDescription \cap {"fearful", "anxious"} # {}
    THEN RoundDiv(damage * 115, 100)
  ELSE IF ctx.isEmotionActive
            /\ ctx.emotionDescription \cap {"angry", "frustrated"} # {}
    THEN RoundDiv(damage * 95, 100)
  ELSE damage

\* The request has completed in this step.
Settled(req) == CopiesIn(req, requests') = CopiesIn(req, requests) - 1

\* What an exchange still owes: its defend line, its 2 s timer, or the line
\* of its counter-attack.
ExchangePending ==
  \/ \E req \in BagToSet(requests) : req.kind \in {"defend", "counter"}
  \/ \E i \in DOMAIN timers : timers[i].kind = "counter"

TimerSet(t) ==
  /\ Len(timers') = Len(timers) + 1
  /\ timers'[Len(timers')] = t

\* C30: within an exchange the defend line is requested by the attack and
\* has resolved when the 2 s delay of the counter-attack starts: a counter
\* timer is set only in the step in which a defend request of the same
\* enemy settles, and the attack that issues the request sets no timer.
\* The counter-attack's damage is applied before its own attack line is
\* requested, and the line's resolution changes nothing of the player.
C30_DefendThenDelayThenDamage ==
  [][/\ \A i \in DOMAIN timers' :
          (timers'[i].kind = "counter" /\ TimerSet(timers'[i])
             /\ i = Len(timers')) =>
            \E req \in BagToSet(requests) :
              /\ req.kind = "defend" /\ Settled(req)
              /\ req.enemy = timers'[i].enemy
              /\ req.ctx = timers'[i].ctx
     /\ \A req \in BagToSet(requests') :
          (req.kind = "defend" /\ Added(req)) =>
            /\ timers' = timers
            /\ lastInput' = "attack"
     /\ \A req \in BagToSet(requests') :
          (req.kind = "counter" /\ Added(req)) =>
            /\ \E i \in DOMAIN timers :
                 /\ timers[i].kind = "counter"
                 /\ timers' = RemoveAt(timers, i)
                 /\ player'.health =
                      Max(0, player.health
                               - ClaimedCounterDamage(timers[i].enemy.damage,
                                                      timers[i].ctx))
     /\ \A req \in BagToSet(requests) :
          (req.kind = "counter" /\ Settled(req)) => player' = player]_vars

\* The orc has answered a fearful player's attack: round(185 * 1.15) = 213
\* has taken the player's health to 0 while the counter-attack's line is
\* still awaited.
C30_Witness ==
  /\ player.health = 0
  /\ \E req \in BagToSet(requests) :
       /\ req.kind = "counter"
       /\ req.enemy.id = "orc1"
       /\ "anxious" \in req.ctx.emotionDescription

(* C31 *)

\* C31: at most one classification is in flight at any time, whatever the
\* latency of the classifier: no tick starts detectAllFaces while the call
\* of an earlier tick has not settled.
C31_OneClassificationInFlight == Len(ticks) <= 1

(* C32 *)

\* A tick that settled with a face and passed it to updateEmotionHistory
FaceTick ==
  /\ spent'.samples = spent.samples + 1
  /\ observed'.detection.kind = "face"

\* The highest score of a distribution, and the highest score of the labels
\* left when one label of the highest score is set aside.
TopScore(e) ==
  CHOOSE v \in {e[l] : l \in EmotionLabels} :
    \A l \in EmotionLabels : ~FracLess(v, e[l])

SecondScore(e) ==
  LET top == CHOOSE l \in EmotionLabels : e[l] = TopScore(e)
  IN  CHOOSE v \in {e[l] : l \in EmotionLabels \ {top}} :
        \A l \in EmotionLabels \ {top} : ~FracLess(v, e[l])

\* The top two scores differ by less than 0.1 and the top is below 0.6
CloseCall(e) ==
  /\ FracLess(TopScore(e), FracAdd(SecondScore(e), Frac(1, 10)))
  /\ FracLess(TopScore(e), Frac(6, 10))

ReportedLabel(e) ==
  IF CloseCall(e) THEN "neutral" ELSE CHOOSE l \in EmotionLabels : e[l] = TopScore(e)

ReportedConfidence(e) ==
  IF CloseCall(e) THEN e["neutral"] ELSE TopScore(e)

\* The smoothed sample took no score from the tick: it is the prior one,
\* faded or cleared.
OutOfBlend ==
  \/ service'.emotionHistory.smoothed = NullEmotion
  \/ /\ service.emotionHistory.smoothed # NullEmotion
     /\ service'.emotionHistory.smoothed.allEmotions
          = service.emotionHistory.smoothed.allEmotions
     /\ service'.emotionHistory.smoothed.primary
          = service.emotionHistory.smoothed.primary

\* C32: for every score distribution of a detected face, the sample is
\* neutral with the neutral score as confidence when the top two scores
\* differ by less than 0.1 and the top is below 0.6, and the top label with
\* its score otherwise; a sample of confidence below 0.3 is no sample: the
\* tick records none and the smoothed sample takes nothing from it.
C32_SampleOfFace ==
  [][FaceTick =>
       LET e == observed'.detection.expressions
       IN  IF FracLess(ReportedConfidence(e), Frac(3, 10))
             THEN /\ service'.emotionHistory.current = NullEmotion
                  /\ OutOfBlend
             ELSE service'.emotionHistory.current
                    = EmotionData(ReportedLabel(e), ReportedConfidence(e), e)]_vars

\* A close call was reported as neutral while another label had the top
\* score, and a close call of low neutral score was dropped beside a prior
\* smoothed sample.
C32_Witness ==
  /\ observed.detection.kind = "face"
  /\ CloseCall(observed.detection.expressions)
  /\ \/ /\ service.emotionHistory.current # NullEmotion
        /\ service.emotionHistory.current.primary = "neutral"
        /\ FracLess(observed.detection.expressions["neutral"],
                    TopScore(observed.detection.expressions))
     \/ /\ service.emotionHistory.current = NullEmotion
        /\ service.emotionHistory.smoothed # NullEmotion

(* C33 *)

\* A tick that passed a real sample to updateEmotionHistory
SampleTick ==
  /\ spent'.samples = spent.samples + 1
  /\ service'.emotionHistory.current # NullEmotion

\* The new sample is a fast one: its confidence exceeds 0.6
FastCase(sample) == FracLess(Frac(6, 10), sample.confidence)

\* 0.3 * prior + 0.7 * new in the fast case, 0.6 * prior + 0.4 * new in the
\* slow one
BlendedScore(prior, sample, label) ==
  IF FastCase(sample)
    THEN FracAdd(FracMul(Frac(3, 10), prior.allEmotions[label]),
                 FracMul(Frac(7, 10), sample.allEmotions[label]))
    ELSE FracAdd(FracMul(Frac(6, 10), prior.allEmotions[label]),
                 FracMul(Frac(4, 10), sample.allEmotions[label]))

\* The label is one of the highest blended score
HighestBlended(prior, sample, label) ==
  \A other \in EmotionLabels :
    ~FracLess(BlendedScore(prior, sample, label), BlendedScore(prior, sample, other))

\* C33: on a real sample with no prior smoothed sample the new sample is
\* adopted with its confidence multiplied by 0.8; with a prior one every
\* label's score becomes 0.3 * prior + 0.7 * new when the new confidence
\* exceeds 0.6 and 0.6 * prior + 0.4 * new otherwise, the primary label is a
\* label of the highest blended score, and it is neutral whenever that
\* highest score is below 0.35, in the fast and in the slow case.
C33_BlendOfSample ==
  [][SampleTick =>
       LET prior == service.emotionHistory.smoothed
           sample == service'.emotionHistory.current
           smoothed == service'.emotionHistory.smoothed
       IN  IF prior = NullEmotion
             THEN /\ smoothed.primary = sample.primary
                  /\ smoothed.allEmotions = sample.allEmotions
                  /\ smoothed.confidence = FracMul(sample.confidence, Frac(8, 10))
             ELSE /\ \A label \in EmotionLabels :
                       smoothed.allEmotions[label] = BlendedScore(prior, sample, label)
                  /\ IF \E label \in EmotionLabels :
                          /\ HighestBlended(prior, sample, label)
                          /\ FracLess(BlendedScore(prior, sample, label), Frac(35, 100))
                       THEN smoothed.primary = "neutral"
                       ELSE HighestBlended(prior, sample, smoothed.primary)]_vars

\* A slow sample was blended into a prior one, the highest blended score
\* stayed below 0.35 on a label other than neutral, and the smoothed sample
\* is neutral.
C33_Witness ==
  /\ service.emotionHistory.current # NullEmotion
  /\ service.emotionHistory.smoothed # NullEmotion
  /\ service.emotionHistory.smoothed.primary = "neutral"
  /\ ~FastCase(service.emotionHistory.current)
  /\ service.emotionHistory.smoothed.allEmotions # service.emotionHistory.current.allEmotions
  /\ \E label \in EmotionLabels \ {"neutral"} :
       /\ FracLess(service.emotionHistory.smoothed.allEmotions["neutral"],
                   service.emotionHistory.smoothed.allEmotions[label])
       /\ \A other \in EmotionLabels :
            ~FracLess(service.emotionHistory.smoothed.allEmotions[label],
                      service.emotionHistory.smoothed.allEmotions[other])
       /\ FracLess(service.emotionHistory.smoothed.allEmotions[label], Frac(35, 100))

(* C34 *)

\* A detection tick ran updateEmotionHistory
UpdateTick == spent'.samples = spent.samples + 1

\* C34: every update or clear of the smoothed sample by a detection tick
\* calls the registered callback in the same step, once, with the smoothed
\* sample getCurrentEmotion() returns after the step (null when cleared), so
\* that notifications come in the order the ticks complete; no other step
\* notifies, and a tick with no callback registered notifies nobody.
C34_TickNotifiesSubscriber ==
  [][/\ UpdateTick =>
          IF service.onEmotionCallback = None
            THEN observed'.notified = << >> /\ hook' = hook
            ELSE /\ observed'.notified = <<service'.emotionHistory.smoothed>>
                 /\ hook' = handleEmotionUpdate(hook, service'.emotionHistory.smoothed)
     /\ ~UpdateTick => observed' = observed]_vars

\* The classifications of a run have all completed, the last two with real
\* samples; the callback was given the smoothed sample the service now
\* holds, and the hook took it over.
C34_Witness ==
  /\ spent.samples = 1 + MaxStarted
  /\ ticks = << >>
  /\ service.emotionHistory.current # NullEmotion
  /\ service.emotionHistory.previous # NullEmotion
  /\ observed.notified = <<service.emotionHistory.smoothed>>
  /\ hook.currentEmotion = service.emotionHistory.smoothed

(* C35 *)

\* The generatePositions call of the current rule returns in this step with
\* fewer positions than its target: a slot is dropped.
SlotDropped ==
  /\ Placing
  /\ placer'.rule # placer.rule
  /\ Len(placer'.result[ResultKey(RuleOrder[placer.rule])])
       < TargetOf(ResultKey(RuleOrder[placer.rule]))

\* C35: every slot of a rule has targetCount * 10 candidate draws of its own
\* before it is dropped, targetCount being floor(canvasArea / 10000 * density)
\* or the category default: a call that drops a slot has drawn targetCount *
\* 10 candidates for that slot, after at least one draw for each position it
\* accepted before.
C35_BudgetOfEachSlot ==
  [][SlotDropped =>
       placer.attempts + 1
         >= 10 * TargetOf(ResultKey(RuleOrder[placer.rule]))
            + Len(placer'.result[ResultKey(RuleOrder[placer.rule])])]_vars

(* C36 *)

\* An enableDetection call is inside waitForVideoStability
StabilityWait == \E i \in DOMAIN calls : calls[i].pc = "stability"

Waits(pending, id) ==
  \E i \in DOMAIN pending : pending[i].id = id /\ pending[i].pc = "stability"

\* The call of that id fails a check of its stability wait in this step and
\* goes on waiting: on its first check, or on a later one, which leaves the
\* calls as they are and is no call of the hook.
CheckFailsAndWaits(id) ==
  \/ ~Waits(calls, id) /\ Waits(calls', id)
  \/ /\ Waits(calls, id)
     /\ calls' = calls /\ spent' = spent
     /\ service'.videoStabilityChecks = service.videoStabilityChecks + 1

\* The call of that id leaves waitForVideoStability in this step
WaitEnds(id) == Waits(calls, id) /\ ~Waits(calls', id)

\* C36: the stability wait never keeps enable() from completing: a failed
\* check lets a call go on waiting only while the checks counted are within
\* the maximum, on a first enable and on a re-enable after an exhausted wait
\* alike; the wait ends, and when it ends, stabilised or not, the detection
\* timer of the call is started and the call completes as enabled.
C36_StabilityWaitEnds ==
  /\ [][\A id \in 1..MaxEnables :
          /\ CheckFailsAndWaits(id) =>
               service'.videoStabilityChecks <= MAX_STABILITY_CHECKS
          /\ WaitEnds(id) =>
               /\ id \in intervals'
               /\ outcome' = [call |-> id, result |-> "enabled"]
               /\ hook'.isEnabled]_vars
  /\ (StabilityWait ~> ~StabilityWait)

\* A second enable, after a first one whose wait was exhausted and a
\* disable, completed after one more failed check and started its timer.
C36_Witness ==
  /\ spent.enables = 2
  /\ spent.disables = 1
  /\ calls = << >>
  /\ outcome = [call |-> 2, result |-> "enabled"]
  /\ service.videoStabilityChecks = MAX_STABILITY_CHECKS + 2
  /\ 2 \in intervals
  /\ 1 \notin intervals

(* C37 *)

\* The victory rewards are credited in this step
RewardsCredited ==
  player'.experience > player.experience \/ player'.gold > player.gold

\* C37: each enemy yields its victory rewards at most once, whatever the
\* interleaving of attack, flee, re-engage and pending death lines: a step
\* that credits experience and gold is the one victory over an enemy that
\* was not defeated before it and is defeated after it.
C37_RewardedOncePerEnemy ==
  [][RewardsCredited =>
       \E i \in DOMAIN enemies :
         ~enemies[i].defeated /\ enemies'[i].defeated]_vars

(* C38 *)

\* The last input was a flee and no session has been engaged since
Fled ==
  /\ lastInput \in {"flee", "fleeAfterEngage", "fleeAgain"}
  /\ inCombat = None

\* The attack line of a counter-attack of that enemy arrives in this step
CounterLineOf(id) ==
  \E req \in BagToSet(requests) :
    /\ req.kind = "counter"
    /\ req.enemy.id = id
    /\ requests' = requests (-) SetToBag({req})

\* C38: once the player has fled, the fled encounter changes neither the
\* player's health nor the talking flag: after the flight no counter-attack
\* of an attack made before it takes health from the player, and the line of
\* a counter-attack of the fled enemy does not clear the talking flag of a
\* session engaged afterwards with another enemy.
C38_FledEncounterIsOver ==
  [][/\ Fled => player'.health >= player.health
     /\ \A id \in EnemyIds :
          (CounterLineOf(id) /\ inCombat # None /\ inCombat # id) =>
            enemyTalking' = enemyTalking]_vars

(* C39 *)

\* C39: in every reachable combat state the talking flag is true only while
\* a session is active, after any interleaving of engage, attack, flee,
\* endCombat, timer expiries and dialogue completions.
C39_TalkingOnlyInSession == enemyTalking => inCombat # None

\* The enemy of a later session is talking while a line of the session the
\* player fled from is still awaited.
C39_Witness ==
  /\ enemyTalking
  /\ inCombat = "goblin1"
  /\ player.x < PlayerData.x
  /\ \E req \in BagToSet(requests) : req.enemy.id = "orc1"

(* C40 *)

\* The positions of a returned result, of all its categories
ResultOfRun ==
  ResultPoints("npcs") \cup ResultPoints("enemies") \cup ResultPoints("treasures")

====
